---- MODULE Spec2Model ----
(***************************************************************************)
(* PTAL review-tracking reconciliation engine of withstudiocms/bots.      *)
(*                                                                         *)
(*   SpecReducer  the review reducer and the status classification of     *)
(*                artemis (utils/ptal.ts) and apollo (makePtalEmbed.ts,   *)
(*                parsePullRequest.ts), applied to bounded inputs          *)
(*   Spec         the reconciler (editPTALEmbed / editPtalMessage) under  *)
(*                its batch drivers (scheduledPTALRefresh,                 *)
(*                checkPtalMessages, handlePullRequestChange)              *)
(*   SpecSweepLive  the artemis part of Spec with the scheduler and the    *)
(*                external services eventually taking every step that     *)
(*                stays possible                                           *)
(*   SpecStore    the ptals table under inserts (unique message id,        *)
(*                autoincrement key) interleaved with the batch drivers    *)
(*   SpecBus      the event bus (makeEventBus)                             *)
(*   SpecCompose  the edit payload of makePTALEmbed / makePtalEmbed,       *)
(*                composed twice from unchanged inputs                     *)
(*   SpecWebhook  the GitHub webhook route (githubWebhookRouteHandler,     *)
(*                verifySignature, processWebhook)                         *)
(*   SpecCrowdin  the crowdin.create subscription (one handler run)        *)
(*   SpecPtal     the /ptal command of artemis with its follow-up fibers   *)
(*                in the FiberMap, and the /ptal handler of apollo         *)
(*   SpecDocs     the /docs command with its follow-up fibers under the    *)
(*                constant FiberMap key                                    *)
(*   SpecOverlap  handlePullRequestChange of apollo under overlapping      *)
(*                webhook deliveries for one record                        *)
(***************************************************************************)
EXTENDS Integers, Sequences, FiniteSets, TLC

VARIABLES
    \* ---- review reducer / status classification
    pr,             \* the PullRequest snapshot handed to the composer
    reviewList,     \* the raw review list handed to the composer
    artemis,        \* result of artemis makePTALEmbed: [seen, parsed]
    apollo,         \* result of apollo makePtalEmbed: [seen, unique, parsed]
    rpc,            \* "input" -> "artemis" -> "done"
    \* ---- reconciler and batch drivers
    bot,            \* which bot this run is: "artemis" | "apollo"
    ptalTable,      \* the record store: set of rows
    sweep,          \* the batch driver: [pc, listed, idx, outcome, tick, last]
    call,           \* the reconcile call in flight
    run,            \* what the current batch run has done so far
    \* ---- event bus
    queue,          \* Queue.unbounded<AppEvents>
    listeners,      \* Map<kind, handler[]>
    processor,      \* the processor fiber
    scopeOpen,      \* the owning scope
    published,      \* number of events published so far
    completed,      \* <<event id, handler index>> pairs whose effect completed
    \* ---- edit payloads
    now,            \* the wall clock read by new Date() / Date.now()
    edits,          \* the edit payloads composed so far
    \* ---- GitHub webhook route
    hook,           \* the webhook request handled last and its outcome
    handled,        \* number of webhook requests handled so far
    \* ---- crowdin.create subscription
    crowdinEmbed,   \* the stored crowdin-embed configurations
    crowdin,        \* the handler run for the event in progress
    messages,       \* the messages created in Discord channels
    \* ---- /ptal command and its follow-up
    commands,       \* the /ptal interactions received so far
    fiberMap,       \* FiberMap<Snowflake>: key -> interaction whose fiber it holds
    \* ---- record store under inserts
    ptalSeq,        \* sqlite_sequence of ptals: the largest id given so far
    lastInsert,     \* the insert attempted last and its outcome
    \* ---- overlapping webhook handlers of apollo
    upstream,       \* the pull request on GitHub: snapshot version, merged
    inflight,       \* the handlePullRequestChange invocations started so far
    shown           \* the snapshot version whose payload the message shows

reducerVars == <<pr, reviewList, artemis, apollo, rpc>>
sweepVars == <<bot, ptalTable, sweep, call, run>>
busVars == <<queue, listeners, processor, scopeOpen, published, completed>>
composeVars == <<now, edits>>
hookVars == <<hook, handled>>
crowdinVars == <<crowdinEmbed, crowdin, messages>>
ptalVars == <<commands, fiberMap>>
storeVars == <<ptalSeq, lastInsert>>
overlapVars == <<upstream, inflight, shown>>
extVars == <<now, edits, hook, handled, crowdinEmbed, crowdin, messages,
             commands, fiberMap, ptalSeq, lastInsert, upstream, inflight, shown>>
vars == <<pr, reviewList, artemis, apollo, rpc,
          bot, ptalTable, sweep, call, run,
          queue, listeners, processor, scopeOpen, published, completed,
          now, edits, hook, handled, crowdinEmbed, crowdin, messages,
          commands, fiberMap, ptalSeq, lastInsert, upstream, inflight, shown>>

(***************************************************************************)
(* Bounds                                                                  *)
(***************************************************************************)
MaxReviews == 3
NumRecords == 3
MaxHandlers == 2
MaxEvents == 2
MaxClock == 2
MaxRequests == 2
NumConfigs == 2
MaxCommands == 2

(***************************************************************************)
(* JavaScript values                                                       *)
(***************************************************************************)
Undefined == "undefined"
NoUser == "null"

\* truthiness of a string-or-undefined value
Truthy(x) == x # Undefined /\ x # ""


\* ---- Map<string, string>, insertion-ordered: a sequence of [key, value]
MapEmpty == <<>>
MapHas(m, k) == \E i \in 1..Len(m) : m[i].key = k
MapGet(m, k) ==
    IF MapHas(m, k) THEN m[CHOOSE i \in 1..Len(m) : m[i].key = k].value ELSE Undefined
MapDelete(m, k) == SelectSeq(m, LAMBDA e : e.key # k)
MapSet(m, k, v) ==
    IF MapHas(m, k)
    THEN [i \in 1..Len(m) |-> IF m[i].key = k THEN [key |-> k, value |-> v] ELSE m[i]]
    ELSE Append(m, [key |-> k, value |-> v])
MapSize(m) == Len(m)
MapKeys(m) == [i \in 1..Len(m) |-> m[i].key]

\* authors.find((author) => reviews.get(author) === state): the first such
\* author, or undefined
Find(authors, reviews, state) ==
    IF \E i \in 1..Len(authors) : MapGet(reviews, authors[i]) = state
    THEN authors[CHOOSE i \in 1..Len(authors) :
                   /\ MapGet(reviews, authors[i]) = state
                   /\ \A j \in 1..(i - 1) : MapGet(reviews, authors[j]) # state]
    ELSE Undefined

(***************************************************************************)
(* Inputs of the reducer                                                   *)
(***************************************************************************)
Logins == {"A", "B"}
ReviewStates == {"APPROVED", "CHANGES_REQUESTED", "COMMENTED", "DISMISSED"}
\* a review whose user is null is skipped before its state is read
ReviewItems ==
    [user : Logins, state : ReviewStates] \cup {[user |-> NoUser, state |-> "COMMENTED"]}
ReviewLists == UNION {[1..n -> ReviewItems] : n \in 0..MaxReviews}
PullRequests ==
    [draft : BOOLEAN, merged : BOOLEAN, mergeable : {"true", "false", "null"},
     mergeable_state : {"clean", "blocked"}]

(***************************************************************************)
(* artemis: utils/ptal.ts                                                  *)
(***************************************************************************)
convertStateToStatus(status) ==
    IF status = "COMMENTED" THEN "COMMENTED"
    ELSE IF status = "APPROVED" THEN "APPROVED"
    ELSE IF status = "CHANGES_REQUESTED" THEN "CHANGES_REQUESTED"
    ELSE "UNKNOWN"

computePullRequestStatusApprovalRequired(p, reviews) ==
    LET reviewAuthors == MapKeys(reviews)
        changes == Find(reviewAuthors, reviews, "CHANGES_REQUESTED")
    IN  IF p.draft THEN "draft"
        ELSE IF p.merged THEN "merged"
        ELSE IF p.mergeable # "true" \/ MapSize(reviews) = 0 \/ p.mergeable_state = "blocked"
             THEN "waiting"
        ELSE IF Truthy(changes) THEN "changes"
        ELSE IF p.mergeable = "true" /\ ~Truthy(changes)
                /\ Truthy(Find(reviewAuthors, reviews, "APPROVED"))
             THEN "approved"
        ELSE "waiting"

computePullRequestStatusDraftAfterMerged(p, reviews) ==
    LET reviewAuthors == MapKeys(reviews)
        changes == Find(reviewAuthors, reviews, "CHANGES_REQUESTED")
    IN  IF p.merged THEN "merged"
        ELSE IF p.draft THEN "draft"
        ELSE IF p.mergeable # "true" \/ MapSize(reviews) = 0 \/ p.mergeable_state = "blocked"
             THEN "waiting"
        ELSE IF Truthy(changes) THEN "changes"
        ELSE IF p.mergeable = "true" /\ ~Truthy(changes) THEN "approved"
        ELSE "waiting"

computePullRequestStatus(p, reviews) ==
    LET reviewAuthors == MapKeys(reviews)
    IN  IF p.draft THEN "draft"
        ELSE IF p.merged THEN "merged"
        ELSE IF p.mergeable # "true" \/ MapSize(reviews) = 0 \/ p.mergeable_state = "blocked"
             THEN "waiting"
        ELSE IF Truthy(Find(reviewAuthors, reviews, "CHANGES_REQUESTED"))
             THEN "changes"
        ELSE IF p.mergeable = "true"
                /\ ~Truthy(Find(reviewAuthors, reviews, "CHANGES_REQUESTED"))
             THEN "approved"
        ELSE "waiting"

parsePullRequest(p, reviews) ==
    LET reviewAuthors == MapKeys(reviews)
    IN  [status  |-> computePullRequestStatus(p, reviews),
         reviews |-> [i \in 1..Len(reviewAuthors) |->
                        [author |-> reviewAuthors[i],
                         status |-> convertStateToStatus(MapGet(reviews, reviewAuthors[i]))]]]

\* one iteration of the for-loop over reviewList
seenStepAlwaysReinsert(seen, review) ==
    IF review.user = NoUser THEN seen
    ELSE MapSet(MapDelete(seen, review.user), review.user, review.state)

seenStep(seen, review) ==
    IF review.user = NoUser THEN seen
    ELSE LET seenReview == MapGet(seen, review.user)
         IN  IF Truthy(seenReview) /\ seenReview = review.state THEN seen
             ELSE MapSet(MapDelete(seen, review.user), review.user, review.state)

RECURSIVE seenLoop(_, _, _)
seenLoop(list, i, seen) ==
    IF i > Len(list) THEN seen ELSE seenLoop(list, i + 1, seenStep(seen, list[i]))

\* the part of makePTALEmbed that reduces the reviews and parses the PR
makePTALEmbed(p, list) ==
    LET seen == seenLoop(list, 1, MapEmpty)
    IN  [seen |-> seen, parsed |-> parsePullRequest(p, seen)]

(***************************************************************************)
(* apollo: utils/ptal/parsePullRequest.ts, utils/ptal/makePtalEmbed.ts     *)
(***************************************************************************)
convertStateToStatusApollo(status) ==
    IF status = "COMMENTED" THEN "COMMENTED"
    ELSE IF status = "APPROVED" THEN "APPROVED"
    ELSE IF status = "CHANGES_REQUESTED" THEN "CHANGES_REQUESTED"
    ELSE "UNKNOWN"

computePullRequestStatusApolloNoMergedRule(p, reviews) ==
    LET reviewAuthors == MapKeys(reviews)
        changes == Find(reviewAuthors, reviews, "CHANGES_REQUESTED")
    IN  IF p.draft THEN "draft"
        ELSE IF p.mergeable # "true" \/ MapSize(reviews) = 0 \/ p.mergeable_state = "blocked"
             THEN "waiting"
        ELSE IF Truthy(changes) THEN "changes"
        ELSE IF p.mergeable = "true" /\ ~Truthy(changes) THEN "approved"
        ELSE "waiting"

computePullRequestStatusApollo(p, reviews) ==
    LET reviewAuthors == MapKeys(reviews)
    IN  IF p.draft THEN "draft"
        ELSE IF p.merged THEN "merged"
        ELSE IF p.mergeable # "true" \/ MapSize(reviews) = 0 \/ p.mergeable_state = "blocked"
             THEN "waiting"
        ELSE IF Truthy(Find(reviewAuthors, reviews, "CHANGES_REQUESTED"))
             THEN "changes"
        ELSE IF p.mergeable = "true"
                /\ ~Truthy(Find(reviewAuthors, reviews, "CHANGES_REQUESTED"))
             THEN "approved"
        ELSE "waiting"

parsePullRequestApollo(p, reviews) ==
    LET reviewAuthors == MapKeys(reviews)
    IN  [status  |-> computePullRequestStatusApollo(p, reviews),
         reviews |-> [i \in 1..Len(reviewAuthors) |->
                        [author |-> reviewAuthors[i],
                         status |-> convertStateToStatusApollo(
                                        MapGet(reviews, reviewAuthors[i]))]]]

uniqueFilterStepAlwaysReinsert(seen, item) ==
    IF item.user = NoUser THEN [keep |-> FALSE, seen |-> seen]
    ELSE [keep |-> TRUE,
          seen |-> MapSet(MapDelete(seen, item.user), item.user, item.state)]

\* the first .filter callback: [keep, seen'] for one item
uniqueFilterStep(seen, item) ==
    IF item.user = NoUser THEN [keep |-> FALSE, seen |-> seen]
    ELSE LET seenReview == MapGet(seen, item.user)
         IN  IF Truthy(seenReview) /\ seenReview = item.state
             THEN [keep |-> FALSE, seen |-> seen]
             ELSE [keep |-> TRUE,
                   seen |-> MapSet(MapDelete(seen, item.user), item.user, item.state)]

RECURSIVE uniqueFilter(_, _, _, _)
uniqueFilter(list, i, seen, kept) ==
    IF i > Len(list) THEN [seen |-> seen, kept |-> kept]
    ELSE LET r == uniqueFilterStep(seen, list[i])
         IN  uniqueFilter(list, i + 1, r.seen,
                          IF r.keep THEN Append(kept, list[i]) ELSE kept)

\* the part of makePtalEmbed that reduces the reviews and parses the PR:
\* _uniqueReviews is computed and never read, parsePullRequest gets seen
makePtalEmbed(p, list) ==
    LET f == uniqueFilter(list, 1, MapEmpty, <<>>)
        uniqueReviews == SelectSeq(f.kept, LAMBDA review : review.state # "DISMISSED")
    IN  [seen |-> f.seen, unique |-> uniqueReviews,
         parsed |-> parsePullRequestApollo(p, f.seen)]

(***************************************************************************)
(* SpecReducer: both composers applied to every bounded input              *)
(***************************************************************************)
NotRun == [seen |-> <<>>, parsed |-> [status |-> "none", reviews |-> <<>>]]
NotRunApollo ==
    [seen |-> <<>>, unique |-> <<>>, parsed |-> [status |-> "none", reviews |-> <<>>]]

SweepIdle ==
    /\ bot = "artemis"
    /\ ptalTable = {}
    /\ sweep = [pc |-> "off", listed |-> <<>>, idx |-> 0, outcome |-> "none"]
    /\ call = [pc |-> "none"]
    /\ run = [invoked |-> {}, updated |-> {}, escaped |-> FALSE]
BusIdle ==
    /\ queue = <<>>
    /\ listeners = [k \in {"X", "Y"} |-> <<>>]
    /\ processor = [pc |-> "off", event |-> [id |-> 0, type |-> "X"],
                    handlers |-> <<>>, pending |-> {}]
    /\ scopeOpen = FALSE
    /\ published = 0
    /\ completed = {}
ComposeIdle ==
    /\ now = 0
    /\ edits = <<>>
HookIdle ==
    /\ hook = [pc |-> "none"]
    /\ handled = 0
CrowdinIdle ==
    /\ crowdinEmbed = {}
    /\ crowdin = [pc |-> "off"]
    /\ messages = {}
PtalIdle ==
    /\ commands = <<>>
    /\ fiberMap = <<>>
StoreIdle ==
    /\ ptalSeq = 0
    /\ lastInsert = [n |-> 0, message |-> 0, ok |-> FALSE, reason |-> "none"]
OverlapIdle ==
    /\ upstream = [version |-> 0, merged |-> FALSE]
    /\ inflight = <<>>
    /\ shown = 0
ExtIdle ==
    /\ ComposeIdle
    /\ HookIdle
    /\ CrowdinIdle
    /\ PtalIdle
    /\ StoreIdle
    /\ OverlapIdle
ReducerIdle ==
    /\ pr = [draft |-> FALSE, merged |-> FALSE, mergeable |-> "null",
             mergeable_state |-> "clean"]
    /\ reviewList = <<>>
    /\ artemis = NotRun
    /\ apollo = NotRunApollo
    /\ rpc = "off"

InitReducer ==
    /\ pr \in PullRequests
    /\ reviewList \in ReviewLists
    /\ artemis = NotRun
    /\ apollo = NotRunApollo
    /\ rpc = "input"
    /\ SweepIdle
    /\ BusIdle
    /\ ExtIdle

RunMakePTALEmbed ==
    /\ rpc = "input"
    /\ artemis' = makePTALEmbed(pr, reviewList)
    /\ rpc' = "artemis"
    /\ UNCHANGED <<pr, reviewList, apollo, sweepVars, busVars, extVars>>

RunMakePtalEmbed ==
    /\ rpc = "artemis"
    /\ apollo' = makePtalEmbed(pr, reviewList)
    /\ rpc' = "done"
    /\ UNCHANGED <<pr, reviewList, artemis, sweepVars, busVars, extVars>>

NextReducer == RunMakePTALEmbed \/ RunMakePtalEmbed

SpecReducer == InitReducer /\ [][NextReducer]_vars

(***************************************************************************)
(* Properties of the reducer and of the status classification             *)
(***************************************************************************)
ReducerDone == rpc = "done"

MapValues(m) == {m[i].value : i \in 1..Len(m)}
MapKeySet(m) == {m[i].key : i \in 1..Len(m)}
MaxOf(S) == CHOOSE x \in S : \A y \in S : y <= x
MinOf(S) == CHOOSE x \in S : \A y \in S : x <= y

\* the rule list of the status classification, first match wins
FirstMatchingRule(p, m) ==
    CASE p.draft -> "draft"
      [] ~p.draft /\ p.merged -> "merged"
      [] ~p.draft /\ ~p.merged
         /\ (p.mergeable # "true" \/ m = <<>> \/ p.mergeable_state = "blocked") -> "waiting"
      [] ~p.draft /\ ~p.merged
         /\ ~(p.mergeable # "true" \/ m = <<>> \/ p.mergeable_state = "blocked")
         /\ "CHANGES_REQUESTED" \in MapValues(m) -> "changes"
      [] OTHER -> "approved"

\* C6: for every snapshot and review map, both implementations return the
\* result of the first matching rule (draft, merged, waiting, changes,
\* approved), draft=true always gives draft, and artemis and apollo agree.
C6_StatusClassification ==
    ReducerDone =>
        /\ artemis.parsed.status = FirstMatchingRule(pr, artemis.seen)
        /\ apollo.parsed.status = FirstMatchingRule(pr, apollo.seen)
        /\ computePullRequestStatus(pr, apollo.seen)
             = computePullRequestStatusApollo(pr, apollo.seen)
        /\ (pr.draft => artemis.parsed.status = "draft" /\ apollo.parsed.status = "draft")

C6_Witness ==
    /\ ReducerDone
    /\ pr.draft
    /\ "CHANGES_REQUESTED" \in MapValues(artemis.seen)
    /\ artemis.parsed.status = "draft"

\* C7 as stated: a snapshot with merged=true always classifies as merged,
\* even when draft is true as well.
C7_MergedAlwaysMerged ==
    (ReducerDone /\ pr.merged) =>
        (artemis.parsed.status = "merged" /\ apollo.parsed.status = "merged")

\* C7 amended: a snapshot with merged=true classifies as merged when draft is
\* not true, and as draft when draft is true as well.
C7_MergedUnlessDraft ==
    (ReducerDone /\ pr.merged) =>
        /\ artemis.parsed.status = (IF pr.draft THEN "draft" ELSE "merged")
        /\ apollo.parsed.status = (IF pr.draft THEN "draft" ELSE "merged")

C7_Witness ==
    ReducerDone /\ pr.merged /\ pr.draft /\ apollo.parsed.status = "draft"

\* C8: the review map handed to classification and rendering holds no entry
\* whose state is DISMISSED, and no review line is rendered for such an author.
C8_NoDismissedEntries ==
    ReducerDone =>
        /\ "DISMISSED" \notin MapValues(artemis.seen)
        /\ "DISMISSED" \notin MapValues(apollo.seen)
        /\ Len(artemis.parsed.reviews) = Len(SelectSeq(artemis.seen,
                                              LAMBDA e : e.value # "DISMISSED"))
        /\ Len(apollo.parsed.reviews) = Len(SelectSeq(apollo.seen,
                                              LAMBDA e : e.value # "DISMISSED"))

\* ---- positions of an author's reviews in the raw list
AuthorsOf(list) == {list[i].user : i \in 1..Len(list)} \ {NoUser}
IdxOf(list, a) == {i \in 1..Len(list) : list[i].user = a}
FirstIdx(list, a) == MinOf(IdxOf(list, a))
LastIdx(list, a) == MaxOf(IdxOf(list, a))
\* i is the author's first review, or its state differs from the author's previous one
StateChangesAt(list, a, i) ==
    LET before == {j \in IdxOf(list, a) : j < i}
    IN  before = {} \/ list[MaxOf(before)].state # list[i].state
LastChangeIdx(list, a) ==
    MaxOf({i \in IdxOf(list, a) : StateChangesAt(list, a, i)})
NoStateChange(list) ==
    \A a \in AuthorsOf(list) : \A i \in IdxOf(list, a) :
        i = FirstIdx(list, a) \/ ~StateChangesAt(list, a, i)

HoldsLastState(list, m) ==
    /\ MapKeySet(m) = AuthorsOf(list)
    /\ \A a \in AuthorsOf(list) : MapGet(m, a) = list[LastIdx(list, a)].state
UniqueKeys(m) == \A i, j \in 1..Len(m) : m[i].key = m[j].key => i = j
OrderedByLast(list, m) ==
    \A i, j \in 1..Len(m) : i < j => LastIdx(list, m[i].key) < LastIdx(list, m[j].key)
OrderedByLastChange(list, m) ==
    \A i, j \in 1..Len(m) :
        i < j => LastChangeIdx(list, m[i].key) < LastChangeIdx(list, m[j].key)
OrderedByFirst(list, m) ==
    \A i, j \in 1..Len(m) : i < j => FirstIdx(list, m[i].key) < FirstIdx(list, m[j].key)

ExampleList ==
    <<[user |-> "A", state |-> "APPROVED"],
      [user |-> "B", state |-> "CHANGES_REQUESTED"],
      [user |-> "A", state |-> "APPROVED"]>>
ExamplePr ==
    [draft |-> FALSE, merged |-> FALSE, mergeable |-> "true", mergeable_state |-> "clean"]
IsExample == reviewList = ExampleList /\ pr = ExamplePr

\* C9 as stated: the map holds each author's last state, its order is the
\* order of each author's last review, and the example list reduces to the
\* order B, A with status changes.
C9_LastSeenWinsReinsert ==
    ReducerDone =>
        /\ HoldsLastState(reviewList, artemis.seen)
        /\ HoldsLastState(reviewList, apollo.seen)
        /\ OrderedByLast(reviewList, artemis.seen)
        /\ OrderedByLast(reviewList, apollo.seen)
        /\ IsExample =>
             /\ MapKeys(artemis.seen) = <<"B", "A">>
             /\ MapKeys(apollo.seen) = <<"B", "A">>
             /\ artemis.parsed.status = "changes"
             /\ apollo.parsed.status = "changes"

\* C9 amended: the map holds each author's last state; a review re-inserts
\* its author at the end only when its state differs from the state held for
\* that author, so the order is that of each author's last state-changing
\* review; the example list reduces to the order A, B with status changes.
C9_LastSeenWinsReinsertOnChange ==
    ReducerDone =>
        /\ HoldsLastState(reviewList, artemis.seen)
        /\ HoldsLastState(reviewList, apollo.seen)
        /\ OrderedByLastChange(reviewList, artemis.seen)
        /\ OrderedByLastChange(reviewList, apollo.seen)
        /\ IsExample =>
             /\ MapKeys(artemis.seen) = <<"A", "B">>
             /\ MapKeys(apollo.seen) = <<"A", "B">>
             /\ artemis.parsed.status = "changes"
             /\ apollo.parsed.status = "changes"

C9_Witness == ReducerDone /\ IsExample /\ MapKeys(artemis.seen) = <<"A", "B">>

RenderedInMapOrder(out) ==
    [i \in 1..Len(out.parsed.reviews) |-> out.parsed.reviews[i].author] = MapKeys(out.seen)

\* C10 as stated: the authors of the map, and the rendered review lines, are
\* unique and in the order of each author's first occurrence in the list.
C10_FirstOccurrenceOrder ==
    ReducerDone =>
        /\ UniqueKeys(artemis.seen) /\ UniqueKeys(apollo.seen)
        /\ RenderedInMapOrder(artemis) /\ RenderedInMapOrder(apollo)
        /\ OrderedByFirst(reviewList, artemis.seen)
        /\ OrderedByFirst(reviewList, apollo.seen)

\* C10 amended: the authors are unique and the review lines follow the map's
\* order; that order is the first-occurrence order when no author's state
\* changes between two of their reviews.
C10_UniqueFirstOccurrenceIfNoChange ==
    ReducerDone =>
        /\ UniqueKeys(artemis.seen) /\ UniqueKeys(apollo.seen)
        /\ RenderedInMapOrder(artemis) /\ RenderedInMapOrder(apollo)
        /\ NoStateChange(reviewList) =>
             /\ OrderedByFirst(reviewList, artemis.seen)
             /\ OrderedByFirst(reviewList, apollo.seen)

C10_Witness ==
    /\ ReducerDone
    /\ NoStateChange(reviewList)
    /\ Len(reviewList) = 3
    /\ reviewList[1].user = reviewList[3].user
    /\ Len(apollo.seen) = 2

\* the snapshot passes the draft, merged and waiting rules without a match
PastWaitingRule(p, m) ==
    /\ ~p.draft /\ ~p.merged
    /\ p.mergeable = "true" /\ m # <<>> /\ p.mergeable_state # "blocked"

\* C39: in both implementations the status is `waiting` only through the
\* waiting rule (not mergeable, empty map or blocked), never through the
\* last return statement: a snapshot that passes the draft, merged and
\* waiting rules is `changes` or `approved`, and it is `approved` whenever
\* the map holds no CHANGES_REQUESTED, even with no APPROVED in it.
C39_FallbackUnreachable ==
    ReducerDone =>
        /\ artemis.parsed.status = "waiting" =>
              (~pr.draft /\ ~pr.merged /\ ~PastWaitingRule(pr, artemis.seen))
        /\ apollo.parsed.status = "waiting" =>
              (~pr.draft /\ ~pr.merged /\ ~PastWaitingRule(pr, apollo.seen))
        /\ PastWaitingRule(pr, artemis.seen) =>
              /\ artemis.parsed.status \in {"changes", "approved"}
              /\ "CHANGES_REQUESTED" \notin MapValues(artemis.seen)
                    => artemis.parsed.status = "approved"
        /\ PastWaitingRule(pr, apollo.seen) =>
              /\ apollo.parsed.status \in {"changes", "approved"}
              /\ "CHANGES_REQUESTED" \notin MapValues(apollo.seen)
                    => apollo.parsed.status = "approved"

\* approved although the only retained review is a comment
C39_Witness ==
    /\ ReducerDone
    /\ PastWaitingRule(pr, artemis.seen)
    /\ MapValues(artemis.seen) = {"COMMENTED"}
    /\ artemis.parsed.status = "approved"
    /\ apollo.parsed.status = "approved"

(***************************************************************************)
(* The reconciler: artemis editPTALEmbed, apollo editPtalMessage           *)
(***************************************************************************)
Row(i) == [id |-> i, channel |-> i, message |-> i, pr |-> i]
Rows == {Row(i) : i \in 1..NumRecords}
RowIds(table) == {r.id : r \in table}

\* db select().from(ptalTable): the rows in primary-key order
RECURSIVE SelectAll(_)
SelectAll(table) ==
    IF table = {} THEN <<>>
    ELSE LET first == CHOOSE r \in table : \A q \in table : r.id <= q.id
         IN  <<first>> \o SelectAll(table \ {first})

\* db delete(ptalTable).where(eq(ptalTable.id, data.id))
DbDeleteByPullRequest(table, id) ==
    {r \in table : \A q \in table : q.id = id => r.pr # q.pr}

DbDeleteNothing(table, id) == table

DbDelete(table, id) == {r \in table : r.id # id}

NoCall == [pc |-> "none"]
NewCall(data) ==
    [pc |-> "fetch", rec |-> data.id, prFetched |-> FALSE, merged |-> FALSE,
     channel |-> "unknown", updated |-> FALSE, exit |-> "running", failed |-> "none",
     steps |-> <<>>, composedFrom |-> "nothing"]

\* the external calls and delay steps the call has executed so far, in order
Did(c, executed) == [c EXCEPT !.steps = @ \o executed]

\* pipe(Effect.sleep('1 seconds'), () => step): pipe(a, f) is f(a) and the
\* function ignores its argument, so the sleep effect is built and never
\* run; what is executed is the step alone
pipeSleepThen(step) == <<step>>

\* a step fails: nothing in the reconciler catches it, the call ends in failure
RaiseCaught(c, step) == [c EXCEPT !.pc = "done", !.exit = "success", !.failed = step]

Raise(c, step) == [c EXCEPT !.pc = "done", !.exit = "failure", !.failed = step]

\* the call returns
Return(c) == [c EXCEPT !.pc = "done", !.exit = "success"]

ChannelKinds == {"guildText", "other", "none"}
ChannelUsableAlways(channel) == TRUE

ChannelUsable(channel) == channel # "none" /\ channel = "guildText"

\* artemis: Effect.all([pulls.get, pulls.listReviews, rest.getChannel]) runs
\* its three effects in order and fails with the first failure; then the
\* channel check.  apollo: Promise.all of pulls.get and the awaited
\* listReviews, then client.channels.fetch, then the channel check.
ReconcileFetch ==
    /\ call.pc = "fetch"
    /\ \/ call' = Raise(Did(call, <<"pulls.get">>), "pulls.get")
       \/ \E m \in BOOLEAN :
            \/ call' = Raise(Did([call EXCEPT !.prFetched = (bot = "artemis"),
                                              !.merged = (bot = "artemis" /\ m)],
                                 <<"pulls.get", "pulls.listReviews">>),
                             "pulls.listReviews")
            \/ call' = Raise(Did([call EXCEPT !.prFetched = TRUE, !.merged = m],
                                 <<"pulls.get", "pulls.listReviews", "getChannel">>),
                             "getChannel")
            \/ \E ch \in ChannelKinds :
                 LET c == Did([call EXCEPT !.prFetched = TRUE, !.merged = m,
                                           !.channel = ch],
                              <<"pulls.get", "pulls.listReviews", "getChannel">>)
                 IN  call' = IF ChannelUsable(ch)
                             THEN [c EXCEPT !.pc = "getMessage"]
                             ELSE Return(c)
    /\ UNCHANGED <<bot, ptalTable, sweep, run, reducerVars, busVars, extVars>>

\* rest.getMessage(data.channel, data.message) / channel.messages.fetch
ReconcileGetMessage ==
    /\ call.pc = "getMessage"
    /\ LET c == Did(call, IF bot = "artemis" THEN pipeSleepThen("getMessage")
                          ELSE <<"getMessage">>)
       IN  \/ call' = [c EXCEPT !.pc = "compose"]
           \/ call' = Raise(c, "getMessage")
    /\ UNCHANGED <<bot, ptalTable, sweep, run, reducerVars, busVars, extVars>>

\* makePTALEmbed / makePtalEmbed: reads the guild row, then composes
ReconcileCompose ==
    /\ call.pc = "compose"
    /\ LET c == Did(call, <<"makeEmbed">>)
       IN  \/ call' = [c EXCEPT !.pc = "update",
                                !.composedFrom = IF call.merged THEN "merged" ELSE "open"]
           \/ call' = Raise(c, "makeEmbed")
    /\ UNCHANGED <<bot, ptalTable, sweep, run, reducerVars, busVars, extVars>>

ReconcileUpdateDeleteUnmerged ==
    /\ call.pc = "update"
    /\ LET c == Did(call, IF bot = "artemis" THEN pipeSleepThen("updateMessage")
                          ELSE <<"updateMessage">>)
       IN  \/ /\ call' = [c EXCEPT !.pc = "delete", !.updated = TRUE]
              /\ run' = [run EXCEPT !.updated = @ \cup {call.rec}]
           \/ /\ call' = Raise(c, "updateMessage")
              /\ run' = run
    /\ UNCHANGED <<bot, ptalTable, sweep, reducerVars, busVars, extVars>>

ReconcileUpdateThenDeleteAnyway ==
    /\ call.pc = "update"
    /\ LET c == Did(call, IF bot = "artemis" THEN pipeSleepThen("updateMessage")
                          ELSE <<"updateMessage">>)
       IN  \/ /\ call' = IF call.merged
                         THEN [c EXCEPT !.pc = "delete", !.updated = TRUE]
                         ELSE Return([c EXCEPT !.updated = TRUE])
              /\ run' = [run EXCEPT !.updated = @ \cup {call.rec}]
           \/ /\ call' = [c EXCEPT !.pc = "delete", !.failed = "updateMessage"]
              /\ run' = run
    /\ UNCHANGED <<bot, ptalTable, sweep, reducerVars, busVars, extVars>>

\* rest.updateMessage / originalMessage.edit, then the merged test
ReconcileUpdate ==
    /\ call.pc = "update"
    /\ LET c == Did(call, IF bot = "artemis" THEN pipeSleepThen("updateMessage")
                          ELSE <<"updateMessage">>)
       IN  \/ /\ call' = IF call.merged
                         THEN [c EXCEPT !.pc = "delete", !.updated = TRUE]
                         ELSE Return([c EXCEPT !.updated = TRUE])
              /\ run' = [run EXCEPT !.updated = @ \cup {call.rec}]
           \/ /\ call' = Raise(c, "updateMessage")
              /\ run' = run
    /\ UNCHANGED <<bot, ptalTable, sweep, reducerVars, busVars, extVars>>

\* if (pullReq.merged) delete the row
ReconcileDelete ==
    /\ call.pc = "delete"
    /\ \/ /\ ptalTable' = DbDelete(ptalTable, call.rec)
          /\ call' = Return(Did(call, <<"delete">>))
       \/ /\ call' = Raise(Did(call, <<"delete">>), "delete")
          /\ ptalTable' = ptalTable
    /\ UNCHANGED <<bot, sweep, run, reducerVars, busVars, extVars>>

(***************************************************************************)
(* artemis: scheduledPTALRefresh, run on PTALRefreshSchedule               *)
(***************************************************************************)
NewRun ==
    [invoked |-> {}, updated |-> {}, escaped |-> FALSE, log |-> <<>>, skipped |-> {},
     failed |-> {}, order |-> <<>>]

SweepStartAnytime ==
    /\ bot = "artemis"
    /\ sweep.pc \in {"idle", "forEach"}
    /\ run' = NewRun
    /\ \/ sweep' = [pc |-> "forEach", listed |-> SelectAll(ptalTable), idx |-> 1,
                    outcome |-> "none", tick |-> 1 - sweep.tick, spaced |-> FALSE,
                    last |-> sweep.outcome]
       \/ sweep' = [pc |-> "idle", listed |-> <<>>, idx |-> 0, outcome |-> "listFailed",
                    tick |-> 1 - sweep.tick, spaced |-> FALSE,
                    last |-> sweep.outcome]
    /\ UNCHANGED <<bot, ptalTable, call, reducerVars, busVars, extVars>>

\* Schedule.spaced('150 seconds'): the first run starts at once, every
\* later one 150 seconds after the end of the run before it
ScheduleSpaced ==
    /\ bot = "artemis"
    /\ sweep.pc = "idle"
    /\ ~sweep.spaced
    /\ sweep' = [sweep EXCEPT !.spaced = TRUE]
    /\ UNCHANGED <<bot, ptalTable, call, run, reducerVars, busVars, extVars>>

\* a schedule tick: select all rows; a failing select is logged by
\* catchAllCause and the cycle ends
SweepStart ==
    /\ bot = "artemis"
    /\ sweep.pc = "idle"
    /\ sweep.spaced
    /\ run' = NewRun
    /\ \/ sweep' = [pc |-> "forEach", listed |-> SelectAll(ptalTable), idx |-> 1,
                    outcome |-> "none", tick |-> 1 - sweep.tick, spaced |-> FALSE,
                    last |-> sweep.outcome]
       \/ sweep' = [pc |-> "idle", listed |-> <<>>, idx |-> 0, outcome |-> "listFailed",
                    tick |-> 1 - sweep.tick, spaced |-> FALSE,
                    last |-> sweep.outcome]
    /\ UNCHANGED <<bot, ptalTable, call, reducerVars, busVars, extVars>>

\* Effect.forEach(editPTALEmbed): the next element, sequentially
ForEachInvoke ==
    /\ sweep.pc = "forEach"
    /\ call.pc = "none"
    /\ sweep.idx <= Len(sweep.listed)
    /\ call' = NewCall(sweep.listed[sweep.idx])
    /\ run' = [run EXCEPT !.invoked = @ \cup {sweep.listed[sweep.idx].id},
                          !.log = Append(@, "reconcile"),
                          !.order = Append(@, sweep.listed[sweep.idx].id)]
    /\ UNCHANGED <<bot, ptalTable, sweep, reducerVars, busVars, extVars>>

ForEachReturnStopsDriver ==
    /\ sweep.pc = "forEach"
    /\ call.pc = "done"
    /\ call' = NoCall
    /\ sweep' = IF call.exit = "failure"
                THEN [sweep EXCEPT !.pc = "stopped", !.outcome = "loggedFailure"]
                ELSE [sweep EXCEPT !.idx = @ + 1]
    /\ UNCHANGED <<bot, ptalTable, run, reducerVars, busVars, extVars>>

\* a failed element fails the forEach; catchAllCause(Effect.logError) logs it
ForEachReturn ==
    /\ sweep.pc = "forEach"
    /\ call.pc = "done"
    /\ call' = NoCall
    /\ sweep' = IF call.exit = "failure"
                THEN [sweep EXCEPT !.pc = "idle", !.outcome = "loggedFailure"]
                ELSE [sweep EXCEPT !.idx = @ + 1]
    /\ UNCHANGED <<bot, ptalTable, run, reducerVars, busVars, extVars>>

SweepComplete ==
    /\ sweep.pc = "forEach"
    /\ call.pc = "none"
    /\ sweep.idx > Len(sweep.listed)
    /\ sweep' = [sweep EXCEPT !.pc = "idle", !.outcome = "completed"]
    /\ UNCHANGED <<bot, ptalTable, call, run, reducerVars, busVars, extVars>>

(***************************************************************************)
(* apollo: checkPtalMessages, run when the client is ready                 *)
(***************************************************************************)
\* the select is outside the try: its failure leaves checkPtalMessages
CheckStart ==
    /\ bot = "apollo"
    /\ sweep.pc = "idle"
    /\ \/ /\ sweep' = [pc |-> "loop", listed |-> SelectAll(ptalTable), idx |-> 1,
                       outcome |-> "none", tick |-> 1 - sweep.tick, spaced |-> sweep.spaced,
                       last |-> sweep.outcome]
          /\ run' = NewRun
       \/ /\ sweep' = [pc |-> "idle", listed |-> <<>>, idx |-> 0, outcome |-> "listFailed",
                       tick |-> 1 - sweep.tick, spaced |-> sweep.spaced,
                    last |-> sweep.outcome]
          /\ run' = [NewRun EXCEPT !.escaped = TRUE]
    /\ UNCHANGED <<bot, ptalTable, call, reducerVars, busVars, extVars>>

\* try { channel = fetch(message.channel); if (!channel) continue;
\*       await editPtalMessage(message, client) } catch {}
LoopInvoke ==
    /\ sweep.pc = "loop"
    /\ call.pc = "none"
    /\ sweep.idx <= Len(sweep.listed)
    /\ \/ /\ sweep' = [sweep EXCEPT !.idx = @ + 1]
          /\ run' = [run EXCEPT !.skipped = @ \cup {sweep.listed[sweep.idx].id}]
          /\ call' = call
       \/ /\ call' = NewCall(sweep.listed[sweep.idx])
          /\ run' = [run EXCEPT !.invoked = @ \cup {sweep.listed[sweep.idx].id},
                                !.log = Append(@, "reconcile"),
                          !.order = Append(@, sweep.listed[sweep.idx].id)]
          /\ sweep' = sweep
    /\ UNCHANGED <<bot, ptalTable, reducerVars, busVars, extVars>>

LoopReturnRethrows ==
    /\ sweep.pc = "loop"
    /\ call.pc = "done"
    /\ call' = NoCall
    /\ sweep' = IF call.exit = "failure"
                THEN [sweep EXCEPT !.pc = "idle", !.outcome = "threw"]
                ELSE [sweep EXCEPT !.idx = @ + 1]
    /\ run' = IF call.exit = "failure"
              THEN [run EXCEPT !.failed = @ \cup {call.rec}, !.escaped = TRUE]
              ELSE run
    /\ UNCHANGED <<bot, ptalTable, reducerVars, busVars, extVars>>

\* a thrown editPtalMessage is swallowed by the catch; the loop goes on
LoopReturn ==
    /\ sweep.pc = "loop"
    /\ call.pc = "done"
    /\ call' = NoCall
    /\ sweep' = [sweep EXCEPT !.idx = @ + 1]
    /\ run' = IF call.exit = "failure" THEN [run EXCEPT !.failed = @ \cup {call.rec}]
              ELSE run
    /\ UNCHANGED <<bot, ptalTable, reducerVars, busVars, extVars>>

CheckComplete ==
    /\ sweep.pc = "loop"
    /\ call.pc = "none"
    /\ sweep.idx > Len(sweep.listed)
    /\ sweep' = [sweep EXCEPT !.pc = "idle", !.outcome = "completed"]
    /\ UNCHANGED <<bot, ptalTable, call, run, reducerVars, busVars, extVars>>

(***************************************************************************)
(* apollo: handlePullRequestChange, run for a pull request webhook         *)
(***************************************************************************)
\* select().from(ptalTable).where(owner, repository, pr): the rows of the
\* pull request, in primary-key order
SelectByPr(table, prNumber) == SelectAll({r \in table : r.pr = prNumber})

\* if (!client.isReady()) return; the select is outside any try; an empty
\* result returns
ChangeStart(prNumber, ready) ==
    /\ bot = "apollo"
    /\ sweep.pc = "idle"
    /\ IF ~ready
       THEN /\ sweep' = [pc |-> "idle", listed |-> <<>>, idx |-> 0, outcome |-> "notReady",
                         tick |-> sweep.tick,
                         spaced |-> sweep.spaced, last |-> sweep.outcome]
            /\ run' = NewRun
       ELSE \/ /\ sweep' = IF SelectByPr(ptalTable, prNumber) = <<>>
                            THEN [pc |-> "idle", listed |-> <<>>, idx |-> 0,
                                  outcome |-> "noRecord", tick |-> sweep.tick,
                                  spaced |-> sweep.spaced, last |-> sweep.outcome]
                            ELSE [pc |-> "change",
                                  listed |-> SelectByPr(ptalTable, prNumber), idx |-> 1,
                                  outcome |-> "none", tick |-> sweep.tick,
                                  spaced |-> sweep.spaced, last |-> sweep.outcome]
               /\ run' = NewRun
            \/ /\ sweep' = [pc |-> "idle", listed |-> <<>>, idx |-> 0,
                            outcome |-> "listFailed", tick |-> sweep.tick,
                            spaced |-> sweep.spaced, last |-> sweep.outcome]
               /\ run' = [NewRun EXCEPT !.escaped = TRUE]
    /\ UNCHANGED <<bot, ptalTable, call, reducerVars, busVars, extVars>>

\* for (const entry of data) { try { await editPtalMessage(entry, client) }
ChangeInvoke ==
    /\ sweep.pc = "change"
    /\ call.pc = "none"
    /\ sweep.idx <= Len(sweep.listed)
    /\ call' = NewCall(sweep.listed[sweep.idx])
    /\ run' = [run EXCEPT !.invoked = @ \cup {sweep.listed[sweep.idx].id},
                          !.log = Append(@, "reconcile"),
                          !.order = Append(@, sweep.listed[sweep.idx].id)]
    /\ UNCHANGED <<bot, ptalTable, sweep, reducerVars, busVars, extVars>>

\* catch (err) { console.error(err) }: the loop goes on
ChangeReturn ==
    /\ sweep.pc = "change"
    /\ call.pc = "done"
    /\ call' = NoCall
    /\ sweep' = [sweep EXCEPT !.idx = @ + 1]
    /\ run' = IF call.exit = "failure" THEN [run EXCEPT !.failed = @ \cup {call.rec}]
              ELSE run
    /\ UNCHANGED <<bot, ptalTable, reducerVars, busVars, extVars>>

ChangeComplete ==
    /\ sweep.pc = "change"
    /\ call.pc = "none"
    /\ sweep.idx > Len(sweep.listed)
    /\ sweep' = [sweep EXCEPT !.pc = "idle", !.outcome = "changeCompleted"]
    /\ UNCHANGED <<bot, ptalTable, call, run, reducerVars, busVars, extVars>>

Init ==
    /\ bot \in {"artemis", "apollo"}
    /\ ptalTable = Rows
    /\ sweep = [pc |-> "idle", listed |-> <<>>, idx |-> 0, outcome |-> "none",
                tick |-> 0, last |-> "none", spaced |-> TRUE]
    /\ call = NoCall
    /\ run = NewRun
    /\ ReducerIdle
    /\ BusIdle
    /\ ExtIdle

Next ==
    \/ ScheduleSpaced
    \/ SweepStart
    \/ ForEachInvoke
    \/ ForEachReturn
    \/ SweepComplete
    \/ CheckStart
    \/ LoopInvoke
    \/ LoopReturn
    \/ CheckComplete
    \/ \E prNumber \in 1..NumRecords, ready \in BOOLEAN : ChangeStart(prNumber, ready)
    \/ ChangeInvoke
    \/ ChangeReturn
    \/ ChangeComplete
    \/ ReconcileFetch
    \/ ReconcileGetMessage
    \/ ReconcileCompose
    \/ ReconcileUpdate
    \/ ReconcileDelete

Spec == Init /\ [][Next]_vars

(***************************************************************************)
(* Properties of the reconciler and of the sweep                           *)
(***************************************************************************)
CallDone == call.pc = "done"

\* C1 as stated: on every way a reconciliation that fetched merged=true can
\* complete, its record is absent from the store when it completes.
C1_MergedAbsentOnEveryCompletion ==
    (CallDone /\ call.prFetched /\ call.merged) => call.rec \notin RowIds(ptalTable)

\* C1 amended: a reconciliation that fetched merged=true and completes
\* normally (usable channel, message fetched, composed and updated, delete
\* statement succeeded) leaves its record absent from the store; on an early
\* return or a failed step the delete is not reached and the record stays.
C1_MergedAbsentOnNormalCompletion ==
    (CallDone /\ call.prFetched /\ call.merged) =>
        IF call.exit = "success" /\ ChannelUsable(call.channel)
        THEN call.updated /\ call.rec \notin RowIds(ptalTable)
        ELSE call.rec \in RowIds(ptalTable)

C1_Witness ==
    /\ CallDone /\ call.merged /\ call.exit = "success" /\ call.updated
    /\ call.rec \notin RowIds(ptalTable)

\* C2: in one run of the artemis sweep a failing reconciliation does not
\* abort the run: when the run has ended after a successful listing, every
\* listed record was reconciled in it, and no failure escaped the sweep.
ListedIds == {sweep.listed[i].id : i \in 1..Len(sweep.listed)}
C2_SweepReconcilesEveryListedRecord ==
    (bot = "artemis" /\ sweep.pc = "idle"
       /\ sweep.outcome \in {"completed", "loggedFailure"})
    => (ListedIds \subseteq run.invoked /\ ~run.escaped)

\* C3 as stated: whichever step fails, the reconcile call returns success.
C3_ReconcileAlwaysSucceeds == CallDone => call.exit = "success"

\* C3 amended: the reconcile call returns success exactly when none of its
\* steps failed (the early return on an unusable channel included); a failed
\* step is not caught in the reconciler and ends the call in failure.
C3_ReconcileFailsIffAStepFails ==
    CallDone =>
        /\ (call.exit = "failure") <=> (call.failed # "none")
        /\ call.exit \in {"success", "failure"}
        /\ call.failed = "none" => (call.updated \/ ~ChannelUsable(call.channel))

C3_Witness == CallDone /\ call.failed = "getMessage" /\ call.exit = "failure"

\* C21: when the channel resolved for a record is missing or is not a guild
\* text channel, the reconcile call stops after the three fetches: it
\* fetches no message, updates nothing, deletes nothing (the record stays,
\* merged or not) and returns without an error.
C21_UnusableChannelSilentAbort ==
    (call.pc # "none" /\ call.channel \in {"other", "none"}) =>
        /\ call.pc = "done" /\ call.exit = "success" /\ call.failed = "none"
        /\ call.steps = <<"pulls.get", "pulls.listReviews", "getChannel">>
        /\ ~call.updated
        /\ call.composedFrom = "nothing"
        /\ call.rec \in RowIds(ptalTable)

C21_Witness == CallDone /\ call.channel = "none" /\ call.merged /\ call.exit = "success"

\* the scheduled sweep of artemis, with the scheduler and the external
\* services eventually taking every step that stays possible
InitSweepLive == Init /\ bot = "artemis"

NextSweepLive ==
    \/ ScheduleSpaced
    \/ SweepStart
    \/ ForEachInvoke
    \/ ForEachReturn
    \/ SweepComplete
    \/ ReconcileFetch
    \/ ReconcileGetMessage
    \/ ReconcileCompose
    \/ ReconcileUpdate
    \/ ReconcileDelete

SpecSweepLive == InitSweepLive /\ [][NextSweepLive]_vars /\ WF_vars(NextSweepLive)

SweepOutcomes == {"none", "completed", "listFailed", "loggedFailure"}

\* C22: while the artemis sweep driver runs, every cycle, whether it is
\* still running, completed, failed while listing or failed in a
\* reconciliation, is eventually followed by the start of another cycle
\* (the tick flips at every start).
C22_SweepRetry ==
    \A o \in SweepOutcomes : \A t \in {0, 1} :
        (bot = "artemis" /\ sweep.outcome = o /\ sweep.tick = t)
            ~> (sweep.tick = 1 - t)

C22_Witness ==
    bot = "artemis" /\ sweep.pc = "forEach" /\ sweep.last = "loggedFailure"

\* C23: a delay step is executed before the message fetch and before the
\* message update of every reconcile call, and between the reconcile calls
\* of consecutive records of one sweep.
C23_PacedSweep ==
    /\ call.pc # "none" =>
          \A i \in 1..Len(call.steps) :
              call.steps[i] \in {"getMessage", "updateMessage"}
                  => (i > 1 /\ call.steps[i - 1] = "sleep")
    /\ \A i \in 2..Len(run.log) :
          run.log[i] = "reconcile" => run.log[i - 1] = "sleep"

\* C24: the steps of one reconcile call run in the order pull request,
\* reviews, channel, message, compose, update, delete; nothing runs after a
\* failed step; the payload is composed from the pull request fetched in
\* this call; the delete runs only after a successful update of a merged
\* pull request.
StepOrder ==
    <<"pulls.get", "pulls.listReviews", "getChannel", "getMessage", "makeEmbed",
      "updateMessage", "delete">>
IsPrefix(s, t) == Len(s) <= Len(t) /\ SubSeq(t, 1, Len(s)) = s
StepsDone(c) == {c.steps[i] : i \in 1..Len(c.steps)}
C29_HealthyRecordRefreshed ==
    \A i \in 1..NumRecords :
        ( /\ [](bot = "artemis" /\ i \in RowIds(ptalTable))
          /\ [](sweep.outcome # "listFailed")
          /\ []((call.pc # "none" /\ call.rec = i) =>
                   (call.failed = "none" /\ call.channel \in {"unknown", "guildText"})) )
        => []<>(i \in run.updated)

(***************************************************************************)
(* SpecStore: the ptals table under inserts, while the sweep reconciles    *)
(***************************************************************************)
MaxInserts == 2
StoreMessages == {1, 2}

\* the values of an insert: every notification here is for the same pull
\* request in the same channel; the message id is the one the chat platform
\* returned
StoreValues(message) == [channel |-> 1, message |-> message, pr |-> 1]

DbInsertNoConstraint(table, seq, values) ==
    [ok |-> TRUE, seq |-> seq + 1,
     table |-> table \cup {[id |-> seq + 1, channel |-> values.channel,
                             message |-> values.message, pr |-> values.pr]}]

\* insert into ptals: id is the autoincrement primary key, message is
\* unique; a statement that violates the constraint fails and changes nothing
DbInsert(table, seq, values) ==
    IF \E r \in table : r.message = values.message
    THEN [ok |-> FALSE, seq |-> seq, table |-> table]
    ELSE [ok |-> TRUE, seq |-> seq + 1,
          table |-> table \cup {[id |-> seq + 1, channel |-> values.channel,
                                  message |-> values.message, pr |-> values.pr]}]

\* c.insert(ptalTable).values({..}) of ptalFollowup, addPTALRecord and the
\* apollo /ptal handler; an unreachable store fails the statement as well
StoreInsert(message, reachable) ==
    /\ lastInsert.n < MaxInserts
    /\ LET res == DbInsert(ptalTable, ptalSeq, StoreValues(message))
       IN  IF reachable
           THEN /\ ptalTable' = res.table
                /\ ptalSeq' = res.seq
                /\ lastInsert' = [n |-> lastInsert.n + 1, message |-> message,
                                  ok |-> res.ok,
                                  reason |-> IF res.ok THEN "none" ELSE "unique"]
           ELSE /\ lastInsert' = [n |-> lastInsert.n + 1, message |-> message,
                                  ok |-> FALSE, reason |-> "unreachable"]
                /\ UNCHANGED <<ptalTable, ptalSeq>>
    /\ UNCHANGED <<bot, sweep, call, run, reducerVars, busVars, composeVars, hookVars,
                   crowdinVars, ptalVars, overlapVars>>

InitStore ==
    /\ bot \in {"artemis", "apollo"}
    /\ ptalTable = {}
    /\ sweep = [pc |-> "idle", listed |-> <<>>, idx |-> 0, outcome |-> "none",
                tick |-> 0, last |-> "none", spaced |-> TRUE]
    /\ call = NoCall
    /\ run = NewRun
    /\ ReducerIdle
    /\ BusIdle
    /\ ExtIdle

NextStore ==
    \/ \E message \in StoreMessages, reachable \in BOOLEAN : StoreInsert(message, reachable)
    \/ Next

SpecStore == InitStore /\ [][NextStore]_vars

\* C25: no two rows of the table ever have the same message id; an insert
\* whose message id is already in the table fails and leaves the table as
\* it was.
C25_MessageIdUnique ==
    /\ [](\A r1 \in ptalTable : \A r2 \in ptalTable :
            r1.message = r2.message => r1 = r2)
    /\ [][(lastInsert'.n # lastInsert.n
             /\ \E r \in ptalTable : r.message = lastInsert'.message)
           => (~lastInsert'.ok /\ ptalTable' = ptalTable)]_vars

C25_Witness ==
    /\ lastInsert.n = 2
    /\ ~lastInsert.ok
    /\ lastInsert.reason = "unique"
    /\ Cardinality(ptalTable) = 1

\* C26: no step changes a field of a row; the only row a step removes is
\* the row of the reconcile call whose delete step it is; an insert keeps
\* every existing row and adds at most one.
C26_RecordsImmutable ==
    [][/\ \A r2 \in ptalTable' :
             (\E r1 \in ptalTable : r1.id = r2.id) => r2 \in ptalTable
       /\ \A r1 \in ptalTable \ ptalTable' :
             call.pc = "delete" /\ r1.id = call.rec
       /\ lastInsert'.n # lastInsert.n =>
             /\ ptalTable \subseteq ptalTable'
             /\ Cardinality(ptalTable' \ ptalTable) <= 1]_vars

\* a reconcile call deleted its own row while a second row for the same
\* pull request stayed
C26_Witness ==
    /\ CallDone /\ "delete" \in StepsDone(call) /\ call.exit = "success"
    /\ lastInsert.n = 2
    /\ Cardinality(ptalTable) = 1
    /\ \A r \in ptalTable : r.id # call.rec /\ r.pr = 1

\* C30: a step of a reconcile call removes rows only in the delete step of
\* a call whose own fetch reported merged and whose update succeeded, and
\* then exactly the row with the call's record id; a call whose snapshot is
\* not merged runs no delete step.
C30_DeleteOnlyOnMerge ==
    /\ [][ptalTable \ ptalTable' # {} =>
            /\ call.pc = "delete" /\ call.prFetched /\ call.merged /\ call.updated
            /\ ptalTable \ ptalTable' = {r \in ptalTable : r.id = call.rec}]_vars
    /\ []((call.pc # "none" /\ ~call.merged) =>
            ("delete" \notin StepsDone(call) /\ call.pc # "delete"
               /\ call.rec \in RowIds(ptalTable)))

C30_Witness ==
    /\ CallDone /\ call.merged /\ "delete" \in StepsDone(call)
    /\ call.rec \notin RowIds(ptalTable)
    /\ ptalTable # {}

ListedOrder == [i \in 1..Len(sweep.listed) |-> sweep.listed[i].id]

\* C37: a run of scheduledPTALRefresh starts only while no run and no
\* reconcile call is in progress and after the schedule spacing has
\* elapsed; the listing of a run is the table at its start and does not
\* change during the run; the records the run reconciles are, in order and
\* without repetition, the first records of that listing, and all of them
\* when the run completes.
C37_SweepsNeverOverlap ==
    /\ [][(bot = "artemis" /\ sweep'.tick # sweep.tick) =>
            /\ sweep.pc = "idle" /\ call.pc = "none" /\ sweep.spaced
            /\ sweep'.pc = "forEach" => sweep'.listed = SelectAll(ptalTable)]_vars
    /\ [][(bot = "artemis" /\ sweep.pc = "forEach" /\ sweep'.tick = sweep.tick)
            => sweep'.listed = sweep.listed]_vars
    /\ []((bot = "artemis" /\ sweep.pc = "forEach") =>
            /\ IsPrefix(run.order, ListedOrder)
            /\ Len(run.order) = IF call.pc = "none" THEN sweep.idx - 1 ELSE sweep.idx)
    /\ []((bot = "artemis" /\ sweep.pc = "idle") =>
            /\ call.pc = "none"
            /\ sweep.outcome = "loggedFailure" => IsPrefix(run.order, ListedOrder)
            /\ sweep.outcome = "completed" => run.order = ListedOrder
            /\ sweep.outcome = "listFailed" => run.order = <<>>)

\* a record inserted while a run was in progress is not part of that run
C37_Witness ==
    /\ bot = "artemis"
    /\ sweep.pc = "idle"
    /\ sweep.outcome = "completed"
    /\ ~sweep.spaced
    /\ run.order = <<1>>
    /\ \E r \in ptalTable : r.id = 2

(***************************************************************************)
(* SpecCompose: the edit payload, composed twice from unchanged inputs     *)
(***************************************************************************)
Roles == {Undefined, "role1"}
Descriptions == {"description1"}
ComposeLists == {list \in ReviewLists : Len(list) <= 1}

\* artemis makePTALEmbed: commonData, returned as `edit`
editPayloadFixedTimestamp(p, list, role, description, t) ==
    LET r == makePTALEmbed(p, list)
    IN  [content |-> <<IF Truthy(role) THEN role ELSE "", description>>,
         embed |-> [status |-> r.parsed.status, reviews |-> r.parsed.reviews,
                    timestamp |-> 0],
         components |-> <<"View on GitHub", "View Changed Files">>,
         allowed_mentions |-> IF Truthy(role) THEN <<role>> ELSE <<>>]

editPayload(p, list, role, description, t) ==
    LET r == makePTALEmbed(p, list)
    IN  [content |-> <<IF Truthy(role) THEN role ELSE "", description>>,
         embed |-> [status |-> r.parsed.status, reviews |-> r.parsed.reviews,
                    timestamp |-> t],
         components |-> <<"View on GitHub", "View Changed Files">>,
         allowed_mentions |-> IF Truthy(role) THEN <<role>> ELSE <<>>]

\* apollo makePtalEmbed: the `edit` member of its result
editPayloadApollo(p, list, role, description, t) ==
    LET r == makePtalEmbed(p, list)
    IN  [content |-> <<IF Truthy(role) THEN role ELSE "", description>>,
         embed |-> [status |-> r.parsed.status, reviews |-> r.parsed.reviews,
                    timestamp |-> t],
         components |-> <<"See on GitHub", "View Files">>,
         allowed_mentions |-> <<role>>]

\* time passes between two reconciliations of a record
Tick ==
    /\ now < MaxClock
    /\ now' = now + 1
    /\ UNCHANGED <<edits, reducerVars, sweepVars, busVars, hookVars, crowdinVars,
                   ptalVars, storeVars, overlapVars>>

\* artemis makePTALEmbed: newInteraction wraps the same commonData object
newInteraction(p, list, role, description, t) ==
    [type |-> "CHANNEL_MESSAGE_WITH_SOURCE",
     data |-> editPayload(p, list, role, description, t)]

\* apollo makePtalEmbed: newInteraction repeats the members of edit and adds
\* withResponse
newInteractionApollo(p, list, role, description, t) ==
    LET e == editPayloadApollo(p, list, role, description, t)
    IN  [content |-> e.content, embed |-> e.embed, withResponse |-> TRUE,
         components |-> e.components, allowed_mentions |-> e.allowed_mentions]

\* what a composition that threw leaves behind
NoPayload == [content |-> <<>>, embed |-> [status |-> "none"], components |-> <<>>,
              allowed_mentions |-> <<>>]

\* one reconciliation composes the payloads for a guild that has a
\* configuration row; the PR snapshot, the review list, the description and
\* the guild's role are the same every time
ComposeEdit(role, description) ==
    /\ Len(edits) < 2
    /\ \A i \in 1..Len(edits) :
          edits[i].row /\ edits[i].role = role /\ edits[i].description = description
    /\ edits' = Append(edits,
                  [role |-> role, description |-> description, at |-> now,
                   row |-> TRUE, ok |-> TRUE,
                   payload |-> IF bot = "artemis"
                               THEN editPayload(pr, reviewList, role, description, now)
                               ELSE editPayloadApollo(pr, reviewList, role, description, now),
                   create |-> IF bot = "artemis"
                              THEN newInteraction(pr, reviewList, role, description, now).data
                              ELSE newInteractionApollo(pr, reviewList, role, description,
                                                        now)])
    /\ UNCHANGED <<now, reducerVars, sweepVars, busVars, hookVars, crowdinVars,
                   ptalVars, storeVars, overlapVars>>

\* the same for a guild without a configuration row: artemis reads
\* dbData?.ptal_announcement_role (undefined); apollo reads
\* data[0].ptal_announcement_role of an empty array and throws
ComposeNoRow(description) ==
    /\ Len(edits) < 2
    /\ \A i \in 1..Len(edits) : ~edits[i].row /\ edits[i].description = description
    /\ edits' = Append(edits,
                  IF bot = "artemis"
                  THEN [role |-> Undefined, description |-> description, at |-> now,
                        row |-> FALSE, ok |-> TRUE,
                        payload |-> editPayload(pr, reviewList, Undefined, description, now),
                        create |-> newInteraction(pr, reviewList, Undefined, description,
                                                  now).data]
                  ELSE [role |-> Undefined, description |-> description, at |-> now,
                        row |-> FALSE, ok |-> FALSE,
                        payload |-> NoPayload, create |-> NoPayload])
    /\ UNCHANGED <<now, reducerVars, sweepVars, busVars, hookVars, crowdinVars,
                   ptalVars, storeVars, overlapVars>>

InitCompose ==
    /\ pr \in PullRequests
    /\ reviewList \in ComposeLists
    /\ artemis = NotRun
    /\ apollo = NotRunApollo
    /\ rpc = "off"
    /\ bot \in {"artemis", "apollo"}
    /\ ptalTable = {}
    /\ sweep = [pc |-> "off", listed |-> <<>>, idx |-> 0, outcome |-> "none"]
    /\ call = [pc |-> "none"]
    /\ run = [invoked |-> {}, updated |-> {}, escaped |-> FALSE]
    /\ BusIdle
    /\ ComposeIdle
    /\ StoreIdle
    /\ OverlapIdle
    /\ HookIdle
    /\ CrowdinIdle
    /\ PtalIdle

NextCompose ==
    \/ Tick
    \/ \E role \in Roles, description \in Descriptions : ComposeEdit(role, description)
    \/ \E description \in Descriptions : ComposeNoRow(description)

SpecCompose == InitCompose /\ [][NextCompose]_vars

\* the same record was reconciled twice from unchanged inputs
ComposedTwice == Len(edits) = 2 /\ edits[1].ok /\ edits[2].ok

C28_MentionRole ==
    \A i \in 1..Len(edits) :
        /\ edits[i].ok
        /\ IF edits[i].row /\ Truthy(edits[i].role)
           THEN /\ edits[i].payload.content[1] = edits[i].role
                /\ edits[i].payload.allowed_mentions = <<edits[i].role>>
           ELSE /\ edits[i].payload.content[1] = ""
                /\ edits[i].payload.allowed_mentions = <<>>
        /\ edits[i].create.content = edits[i].payload.content
        /\ edits[i].create.embed = edits[i].payload.embed
        /\ edits[i].create.components = edits[i].payload.components
        /\ edits[i].create.allowed_mentions = edits[i].payload.allowed_mentions

(***************************************************************************)
(* SpecWebhook: POST /api/github/webhook                                   *)
(***************************************************************************)
WebhookSecret == "secret"

\* `sha256=${createHmac('sha256', key).update(body).digest('hex')}`: the
\* header value that only the holder of key computes for body
Hmac(key, body) == [given |-> TRUE, key |-> key, body |-> body]

\* request bodies: text that is not JSON, and JSON payloads by their action
\* and by how much of the expected shape they have ("none": not a
\* repository_dispatch payload, "dispatch": one without
\* client_payload.pull_request_url, "crowdin": one with it)
WebhookBodies ==
    {[json |-> FALSE, action |-> "none", shape |-> "none"]}
    \cup [json : {TRUE}, action : {"crowdin.create", "other"},
          shape : {"none", "dispatch", "crowdin"}]

\* the requests a client can send: any event name, any body, and no
\* x-hub-signature-256 header or one that some key holder computed for some body
WebhookRequests ==
    [event : {"repository_dispatch", "installation", "push"},
     body : WebhookBodies,
     signature : {[given |-> FALSE, key |-> "", body |-> b] : b \in WebhookBodies}
                 \cup {Hmac(key, b) : key \in {WebhookSecret, "guess"},
                                      b \in WebhookBodies}]

verifySignature(body, signature) ==
    IF ~signature.given THEN [ok |-> FALSE, message |-> "No signature provided"]
    ELSE IF signature # Hmac(WebhookSecret, body)
    THEN [ok |-> FALSE, message |-> "Invalid signature"]
    ELSE [ok |-> TRUE, message |-> ""]

\* error.message.includes('signature'), over the messages that occur
IncludesSignature(message) ==
    message \in {"No signature provided", "Invalid signature"}

\* handleRepositoryDispatch: publishes crowdin.create for a payload that
\* decodes with incomingCrowdinPayloadSchema
handleRepositoryDispatch(payload) ==
    IF payload.action = "crowdin.create"
    THEN IF payload.shape = "crowdin"
         THEN [ok |-> TRUE, message |-> "", publish |-> TRUE]
         ELSE [ok |-> FALSE, message |-> "ParseError", publish |-> FALSE]
    ELSE [ok |-> TRUE, message |-> "", publish |-> FALSE]

processWebhook(event, payload) ==
    IF event = "repository_dispatch"
    THEN IF payload.shape = "none"
         THEN [ok |-> FALSE, message |-> "ParseError", publish |-> FALSE]
         ELSE handleRepositoryDispatch(payload)
    ELSE [ok |-> TRUE, message |-> "", publish |-> FALSE]

\* the route handler: what it ran and how the request was answered.
\* JSON.parse(bodyText) is evaluated in the flatMap callback, before the
\* effect of verifySignature runs; a throw there is a defect, which
\* Effect.catchAll does not handle, and the router answers 500.
githubWebhookRouteHandler(req) ==
    IF ~req.body.json
    THEN [died |-> TRUE, verified |-> FALSE, processed |-> FALSE,
          publish |-> FALSE, status |-> 500]
    ELSE LET v == verifySignature(req.body, req.signature)
             r == processWebhook(req.event, req.body)
         IN  IF ~v.ok
             THEN [died |-> FALSE, verified |-> FALSE, processed |-> FALSE,
                   publish |-> FALSE,
                   status |-> IF IncludesSignature(v.message) THEN 401 ELSE 500]
             ELSE IF ~r.ok
             THEN [died |-> FALSE, verified |-> TRUE, processed |-> TRUE,
                   publish |-> FALSE,
                   status |-> IF IncludesSignature(r.message) THEN 401 ELSE 500]
             ELSE [died |-> FALSE, verified |-> TRUE, processed |-> TRUE,
                   publish |-> r.publish, status |-> 200]

\* one request is received and answered
WebhookRequest(req) ==
    /\ handled < MaxRequests
    /\ handled' = handled + 1
    /\ LET outcome == githubWebhookRouteHandler(req)
       IN  /\ hook' = [pc |-> "answered", req |-> req, outcome |-> outcome]
           /\ IF outcome.publish
              THEN /\ queue' = Append(queue, [id |-> published + 1,
                                              type |-> "crowdin.create"])
                   /\ published' = published + 1
              ELSE UNCHANGED <<queue, published>>
    /\ UNCHANGED <<listeners, processor, scopeOpen, completed, reducerVars,
                   sweepVars, composeVars, crowdinVars, ptalVars, storeVars, overlapVars>>

InitWebhook ==
    /\ ReducerIdle
    /\ SweepIdle
    /\ BusIdle
    /\ ExtIdle

NextWebhook == \E req \in WebhookRequests : WebhookRequest(req)

SpecWebhook == InitWebhook /\ [][NextWebhook]_vars

\* C16: processWebhook is run for a request, and an event is published, only
\* if verifySignature succeeded for the request's body and signature header;
\* a request whose signature is missing or does not match its body publishes
\* nothing and is answered with status 401.
C16_AuthenticityGate ==
    hook.pc = "answered" =>
        LET authentic == /\ hook.req.signature.given
                         /\ hook.req.signature = Hmac(WebhookSecret, hook.req.body)
        IN  /\ hook.outcome.processed => (authentic /\ hook.outcome.verified)
            /\ hook.outcome.publish => hook.outcome.processed
            /\ ~authentic => (~hook.outcome.publish /\ hook.outcome.status = 401)

(***************************************************************************)
(* Pull request URLs as the commands and the webhook payload carry them    *)
(***************************************************************************)
Chars == {"1", "a"}
Digits == {"1"}
DigitValue(c) == IF c = "1" THEN 1 ELSE 0

\* the text after '/pull/': every string over Chars of length 0, 1 or 2
PrTokens ==
    {<<>>} \cup {<<a>> : a \in Chars} \cup {<<a, b>> : a \in Chars, b \in Chars}

\* a URL text, by what the code reads from it: whether it starts with 'http',
\* whether new URL() accepts it, whether its origin is https://github.com,
\* whether its pathname has a '/pull/' segment, and the text after it
Url(http, parses, github, pull, token) ==
    [http |-> http, parses |-> parses, github |-> github, pull |-> pull,
     token |-> token]
Urls ==
    {Url(FALSE, FALSE, FALSE, FALSE, <<>>),
     Url(TRUE, FALSE, FALSE, FALSE, <<>>),
     Url(TRUE, TRUE, FALSE, TRUE, <<"1">>),
     Url(TRUE, TRUE, TRUE, FALSE, <<>>)}
    \cup {Url(TRUE, TRUE, TRUE, TRUE, token) : token \in PrTokens}

\* the number NaN, which no digit string parses to
NaN == 0 - 1

\* Number.parseInt(text, 10): the value of the longest prefix of digits, NaN
\* when the text does not start with a digit
RECURSIVE parseIntLoop(_, _, _)
parseIntLoop(token, i, acc) ==
    IF i > Len(token) \/ token[i] \notin Digits
    THEN IF i = 1 THEN NaN ELSE acc
    ELSE parseIntLoop(token, i + 1, acc * 10 + DigitValue(token[i]))

parseInt(token) == parseIntLoop(token, 1, 0)

\* Number.parseInt(pathname.split('/pull/')[1], 10)
pullNumber(url) == IF url.pull THEN parseInt(url.token) ELSE NaN

(***************************************************************************)
(* SpecCrowdin: the handler subscribed to crowdin.create                   *)
(***************************************************************************)
Repositories ==
    {[owner |-> "o1", name |-> "n1"], [owner |-> "o2", name |-> "n1"],
     [owner |-> "o1", name |-> "n2"]}
Channels == {"c1", "c2"}
GuildOf(channel) == IF channel = "c1" THEN "g1" ELSE "g2"

\* the rows the crowdin_embed table can hold
ConfigTables ==
    {{[id |-> i, owner |-> f[i].repository.owner, repo |-> f[i].repository.name,
       channelId |-> f[i].channel, guildId |-> GuildOf(f[i].channel)] :
          i \in 1..NumConfigs} :
       f \in [1..NumConfigs -> [repository : Repositories, channel : Channels]]}

RECURSIVE RowsById(_, _)
RowsById(table, i) ==
    IF i > NumConfigs THEN <<>>
    ELSE (IF \E row \in table : row.id = i
          THEN <<CHOOSE row \in table : row.id = i>> ELSE <<>>)
         \o RowsById(table, i + 1)

getCrowdinReferenceAll(table, repository) == RowsById(table, 1)

\* select().from(crowdinEmbed).where(and(eq(repo, name), eq(owner, owner)))
getCrowdinReference(table, repository) ==
    RowsById({row \in table : row.repo = repository.name
                              /\ row.owner = repository.owner}, 1)

\* the bus invokes the handler for a crowdin.create event: the synchronous
\* start of the generator (new URL, split, parseInt); a throw of new URL is a
\* defect, which the handler's catchAllCause logs
CrowdinStart(repository, url) ==
    /\ crowdin.pc = "idle"
    /\ crowdin' =
         IF ~url.parses
         THEN [pc |-> "logged", repository |-> repository, url |-> url,
               pull_number |-> NaN, refs |-> <<>>, idx |-> 0, failed |-> "url"]
         ELSE [pc |-> "fetch", repository |-> repository, url |-> url,
               pull_number |-> pullNumber(url), refs |-> <<>>, idx |-> 0,
               failed |-> "none"]
    /\ UNCHANGED <<crowdinEmbed, messages, reducerVars, sweepVars, busVars,
                   composeVars, hookVars, ptalVars, storeVars, overlapVars>>

\* Effect.all([getCrowdinReference, getPulls, getPullReviews]): sequential,
\* the first failure fails it; GitHub has no pull request number NaN
CrowdinFetch(refsOk, pullsOk, reviewsOk) ==
    /\ crowdin.pc = "fetch"
    /\ crowdin.pull_number = NaN => ~pullsOk
    /\ crowdin' =
         IF ~refsOk THEN [crowdin EXCEPT !.pc = "logged", !.failed = "getCrowdinReference"]
         ELSE IF ~pullsOk THEN [crowdin EXCEPT !.pc = "logged", !.failed = "getPulls"]
         ELSE IF ~reviewsOk THEN [crowdin EXCEPT !.pc = "logged", !.failed = "getPullReviews"]
         ELSE LET refs == getCrowdinReference(crowdinEmbed, crowdin.repository)
              IN  [crowdin EXCEPT !.refs = refs, !.idx = 1,
                                  !.pc = IF refs = <<>> THEN "finished" ELSE "compose"]
    /\ UNCHANGED <<crowdinEmbed, messages, reducerVars, sweepVars, busVars,
                   composeVars, hookVars, ptalVars, storeVars, overlapVars>>

\* makePTALEmbed for the current ref (it reads the guild's row)
CrowdinCompose(ok) ==
    /\ crowdin.pc = "compose"
    /\ crowdin' = IF ok THEN [crowdin EXCEPT !.pc = "createMessage"]
                  ELSE [crowdin EXCEPT !.pc = "logged", !.failed = "makePTALEmbed"]
    /\ UNCHANGED <<crowdinEmbed, messages, reducerVars, sweepVars, busVars,
                   composeVars, hookVars, ptalVars, storeVars, overlapVars>>

\* rest.createMessage(ref.channelId, newInteraction.data)
CrowdinCreateMessage(ok) ==
    /\ crowdin.pc = "createMessage"
    /\ IF ok
       THEN /\ messages' = messages \cup
                  {[id |-> Cardinality(messages) + 1,
                    channel |-> crowdin.refs[crowdin.idx].channelId,
                    ref |-> crowdin.refs[crowdin.idx].id]}
            /\ crowdin' = [crowdin EXCEPT !.pc = "addPTALRecord"]
       ELSE /\ messages' = messages
            /\ crowdin' = [crowdin EXCEPT !.pc = "logged", !.failed = "createMessage"]
    /\ UNCHANGED <<crowdinEmbed, reducerVars, sweepVars, busVars,
                   composeVars, hookVars, ptalVars, storeVars, overlapVars>>

CrowdinAddRecordRollsBack(ok) ==
    /\ crowdin.pc = "addPTALRecord"
    /\ IF ok
       THEN /\ ptalTable' = ptalTable \cup
                  {[id |-> Cardinality(ptalTable) + 1,
                    channel |-> crowdin.refs[crowdin.idx].channelId,
                    message |-> Cardinality(messages),
                    owner |-> crowdin.repository.owner,
                    repository |-> crowdin.repository.name,
                    pr |-> crowdin.pull_number,
                    description |-> "Crowdin Sync Request",
                    guildId |-> crowdin.refs[crowdin.idx].guildId]}
            /\ messages' = messages
            /\ crowdin' = [crowdin EXCEPT !.idx = @ + 1,
                             !.pc = IF crowdin.idx + 1 > Len(crowdin.refs)
                                    THEN "finished" ELSE "compose"]
       ELSE /\ ptalTable' = ptalTable
            /\ messages' = {msg \in messages : msg.id # Cardinality(messages)}
            /\ crowdin' = [crowdin EXCEPT !.pc = "logged", !.failed = "addPTALRecord"]
    /\ UNCHANGED <<crowdinEmbed, reducerVars, bot, sweep, call, run,
                   busVars, composeVars, hookVars, ptalVars, storeVars, overlapVars>>

\* addPTALRecord for the message just created, then the next ref
CrowdinAddRecord(ok) ==
    /\ crowdin.pc = "addPTALRecord"
    /\ IF ok
       THEN /\ ptalTable' = ptalTable \cup
                  {[id |-> Cardinality(ptalTable) + 1,
                    channel |-> crowdin.refs[crowdin.idx].channelId,
                    message |-> Cardinality(messages),
                    owner |-> crowdin.repository.owner,
                    repository |-> crowdin.repository.name,
                    pr |-> crowdin.pull_number,
                    description |-> "Crowdin Sync Request",
                    guildId |-> crowdin.refs[crowdin.idx].guildId]}
            /\ crowdin' = [crowdin EXCEPT !.idx = @ + 1,
                             !.pc = IF crowdin.idx + 1 > Len(crowdin.refs)
                                    THEN "finished" ELSE "compose"]
       ELSE /\ ptalTable' = ptalTable
            /\ crowdin' = [crowdin EXCEPT !.pc = "logged", !.failed = "addPTALRecord"]
    /\ UNCHANGED <<crowdinEmbed, messages, reducerVars, bot, sweep, call, run,
                   busVars, composeVars, hookVars, ptalVars, storeVars, overlapVars>>

InitCrowdin ==
    /\ crowdinEmbed \in ConfigTables
    /\ crowdin = [pc |-> "idle"]
    /\ messages = {}
    /\ ReducerIdle
    /\ SweepIdle
    /\ BusIdle
    /\ ComposeIdle
    /\ StoreIdle
    /\ OverlapIdle
    /\ HookIdle
    /\ PtalIdle

NextCrowdin ==
    \/ \E repository \in Repositories, url \in Urls : CrowdinStart(repository, url)
    \/ \E refsOk \in BOOLEAN, pullsOk \in BOOLEAN, reviewsOk \in BOOLEAN :
          CrowdinFetch(refsOk, pullsOk, reviewsOk)
    \/ \E ok \in BOOLEAN : CrowdinCompose(ok)
    \/ \E ok \in BOOLEAN : CrowdinCreateMessage(ok)
    \/ \E ok \in BOOLEAN : CrowdinAddRecord(ok)

SpecCrowdin == InitCrowdin /\ [][NextCrowdin]_vars

\* the handler run for the event has ended, normally or in its catchAllCause
CrowdinOver == crowdin.pc \in {"finished", "logged"}

\* configuration `row` has exactly one message, in its channel, and exactly
\* one record, which carries that message, channel and guild, the event's
\* repository and the PR number parsed from the event's URL
Notified(row) ==
    /\ Cardinality({msg \in messages : msg.ref = row.id}) = 1
    /\ \A msg \in messages : msg.ref = row.id =>
          /\ msg.channel = row.channelId
          /\ Cardinality({rec \in ptalTable : rec.message = msg.id}) = 1
          /\ \A rec \in ptalTable : rec.message = msg.id =>
                /\ rec.channel = row.channelId
                /\ rec.guildId = row.guildId
                /\ rec.owner = crowdin.repository.owner
                /\ rec.repository = crowdin.repository.name
                /\ rec.pr = parseInt(crowdin.url.token)
                /\ rec.pr # NaN

\* configuration `row` has no message; no record exists without its message
Untouched(row) == {msg \in messages : msg.ref = row.id} = {}

Matches(row) ==
    row.owner = crowdin.repository.owner /\ row.repo = crowdin.repository.name

crowdinHandlerExit(c) ==
    IF c.pc \in {"finished", "logged"} THEN "ok"
    ELSE IF c.pc \in {"idle", "fetch", "compose", "createMessage", "addPTALRecord"}
    THEN "running"
    ELSE "fail"

\* C34: whichever step of the crowdin.create handler fails, the handler
\* ends as a success towards the bus with the failure logged; no step takes
\* back a message or a record created earlier; after the failure the
\* handler does nothing more, so the configurations after the failing one
\* get no message and no record.
C34_CrowdinHandlerNeverFails ==
    /\ [](crowdinHandlerExit(crowdin) \in {"running", "ok"})
    /\ []((crowdin.pc # "idle" /\ crowdin.failed # "none") =>
            /\ crowdin.pc = "logged"
            /\ \A i \in 1..Len(crowdin.refs) :
                  i > crowdin.idx => Untouched(crowdin.refs[i]))
    /\ [][messages \subseteq messages' /\ ptalTable \subseteq ptalTable']_vars
    /\ [][CrowdinOver =>
            (crowdin' = crowdin /\ messages' = messages /\ ptalTable' = ptalTable)]_vars

\* the second configuration's insert failed: the first keeps its message and
\* record, the second its message
C34_Witness ==
    /\ crowdin.pc = "logged"
    /\ crowdin.failed = "addPTALRecord"
    /\ crowdin.idx = 2
    /\ Cardinality(messages) = 2
    /\ Cardinality(ptalTable) = 1

(***************************************************************************)
(* SpecPtal: the /ptal command, ptalFollowup and the FiberMap              *)
(***************************************************************************)
\* FiberMap.run(map, key): forks the effect, interrupts the fiber the map
\* holds under key, if any, and stores the new fiber under key
FiberMapRunOnlyIfMissing(map, key, fiber) ==
    IF key \in DOMAIN map
    THEN [map |-> map, interrupt |-> {}, started |-> FALSE]
    ELSE [map |-> [k \in DOMAIN map \cup {key} |->
                     IF k = key THEN fiber ELSE map[k]],
          interrupt |-> {}, started |-> TRUE]

FiberMapRun(map, key, fiber) ==
    [map |-> [k \in DOMAIN map \cup {key} |-> IF k = key THEN fiber ELSE map[k]],
     interrupt |-> IF key \in DOMAIN map THEN {map[key]} ELSE {},
     started |-> TRUE]

\* when a fiber ends, the map drops its entry if it still holds that fiber
FiberMapRemove(map, key, fiber) ==
    IF key \in DOMAIN map /\ map[key] = fiber
    THEN [k \in DOMAIN map \ {key} |-> map[k]]
    ELSE map

\* ptalCommand up to the point where it responds: "rejected" (an ephemeral
\* rejection is the response), "defect" (new URL threw), "failure" (a call
\* failed; GitHub has no pull request number NaN), or "deferred"
ptalCommand(url, fetchOk) ==
    IF ~url.http THEN "rejected"
    ELSE IF ~url.parses THEN "defect"
    ELSE IF ~url.github \/ ~url.pull THEN "rejected"
    ELSE IF ~fetchOk \/ parseInt(url.token) = NaN THEN "failure"
    ELSE "deferred"

\* one /ptal interaction in `channel`: the whole handler.  A defect or a
\* failure of the handler is logged by the command builder's catchAllCause
\* and the interaction gets no response.
PtalCommand(channel, url, description, fetchOk) ==
    /\ bot = "artemis"
    /\ Len(commands) < MaxCommands
    /\ LET id == Len(commands) + 1
           outcome == ptalCommand(url, fetchOk)
           guild == GuildOf(channel)
           reg == FiberMapRun(fiberMap, guild, id)
           new == [guild |-> guild, channel |-> channel, url |-> url,
                   description |-> description,
                   pr |-> IF outcome = "deferred" THEN parseInt(url.token) ELSE NaN,
                   response |-> IF outcome \in {"rejected", "deferred"}
                                THEN outcome ELSE "none",
                   original |-> IF outcome = "deferred" THEN "thinking" ELSE "none",
                   pc |-> IF outcome = "deferred" /\ reg.started THEN "post" ELSE "none",
                   failed |-> "none", errorEdited |-> FALSE, deleteFailed |-> FALSE]
       IN  IF outcome = "deferred"
           THEN /\ fiberMap' = reg.map
                /\ commands' = Append(
                      [c \in 1..Len(commands) |->
                          IF c \in reg.interrupt
                          THEN [commands[c] EXCEPT !.pc = "interrupted"]
                          ELSE commands[c]], new)
           ELSE /\ fiberMap' = fiberMap
                /\ commands' = Append(commands, new)
    /\ UNCHANGED <<reducerVars, sweepVars, busVars, composeVars, hookVars,
                   crowdinVars, storeVars, overlapVars>>

\* the fiber of command c ends: its entry leaves the map
FiberEnds(c, cmds) ==
    /\ commands' = cmds
    /\ fiberMap' = FiberMapRemove(fiberMap, commands[c].guild, c)

FollowupPostInsertsAnyway(c, ok) ==
    /\ c \in 1..Len(commands)
    /\ commands[c].pc = "post"
    /\ commands' = [commands EXCEPT ![c] =
                      IF ok THEN [@ EXCEPT !.pc = "insert", !.original = "ptal"]
                      ELSE [@ EXCEPT !.pc = "insert", !.failed = "post"]]
    /\ UNCHANGED <<fiberMap, reducerVars, sweepVars, busVars, composeVars,
                   hookVars, crowdinVars, storeVars, overlapVars>>

\* rest.updateOriginalWebhookMessage(..., { payload: newInteraction })
FollowupPost(c, ok) ==
    /\ c \in 1..Len(commands)
    /\ commands[c].pc = "post"
    /\ commands' = [commands EXCEPT ![c] =
                      IF ok THEN [@ EXCEPT !.pc = "insert", !.original = "ptal"]
                      ELSE [@ EXCEPT !.pc = "errorEdit", !.failed = "post"]]
    /\ UNCHANGED <<fiberMap, reducerVars, sweepVars, busVars, composeVars,
                   hookVars, crowdinVars, storeVars, overlapVars>>

\* Effect.tap: insert the record of the posted message
FollowupInsert(c, ok) ==
    /\ c \in 1..Len(commands)
    /\ commands[c].pc = "insert"
    /\ IF ok
       THEN /\ ptalTable' = ptalTable \cup
                  {[id |-> Cardinality(ptalTable) + 1,
                    channel |-> commands[c].channel,
                    message |-> c,
                    owner |-> "o1",
                    repository |-> "n1",
                    pr |-> commands[c].pr,
                    description |-> commands[c].description,
                    guildId |-> commands[c].guild]}
            /\ FiberEnds(c, [commands EXCEPT ![c].pc = "done"])
       ELSE /\ ptalTable' = ptalTable
            /\ commands' = [commands EXCEPT ![c].pc = "errorEdit",
                                            ![c].failed = "insert"]
            /\ fiberMap' = fiberMap
    /\ UNCHANGED <<reducerVars, bot, sweep, call, run, busVars, composeVars,
                   hookVars, crowdinVars, storeVars, overlapVars>>

\* catchAllCause: replace the original message by the error summary
FollowupErrorEdit(c, ok) ==
    /\ c \in 1..Len(commands)
    /\ commands[c].pc = "errorEdit"
    /\ IF ok
       THEN /\ commands' = [commands EXCEPT ![c].pc = "sleep",
                                            ![c].original = "error",
                                            ![c].errorEdited = TRUE]
            /\ fiberMap' = fiberMap
       ELSE FiberEnds(c, [commands EXCEPT ![c].pc = "done"])
    /\ UNCHANGED <<reducerVars, sweepVars, busVars, composeVars, hookVars,
                   crowdinVars, storeVars, overlapVars>>

\* Effect.sleep('1 minutes') is over
FollowupSleep(c) ==
    /\ c \in 1..Len(commands)
    /\ commands[c].pc = "sleep"
    /\ commands' = [commands EXCEPT ![c].pc = "delete"]
    /\ UNCHANGED <<fiberMap, reducerVars, sweepVars, busVars, composeVars,
                   hookVars, crowdinVars, storeVars, overlapVars>>

\* rest.deleteOriginalWebhookMessage
FollowupDelete(c, ok) ==
    /\ c \in 1..Len(commands)
    /\ commands[c].pc = "delete"
    /\ FiberEnds(c, [commands EXCEPT ![c].pc = "done",
                        ![c].original = IF ok THEN "deleted" ELSE @,
                        ![c].deleteFailed = ~ok])
    /\ UNCHANGED <<reducerVars, sweepVars, busVars, composeVars, hookVars,
                   crowdinVars, storeVars, overlapVars>>

\* apollo's handler up to its reply: "rejected" (an ephemeral rejection is
\* the reply; a failed fetch is caught and answered), "threw" (new URL threw,
\* nothing is replied) or "replied"
ptalHandlerApollo(url, fetchOk) ==
    IF ~url.http THEN "rejected"
    ELSE IF ~url.parses THEN "threw"
    ELSE IF ~url.github \/ ~url.pull THEN "rejected"
    ELSE IF ~fetchOk \/ parseInt(url.token) = NaN THEN "rejected"
    ELSE "replied"

\* one /ptal interaction handled by apollo: reply with the PTAL message, then
\* insert its record; a failing reply throws before the insert
ApolloPtal(channel, url, description, fetchOk, replyOk, insertOk) ==
    /\ bot = "apollo"
    /\ Len(commands) < MaxCommands
    /\ LET id == Len(commands) + 1
           outcome == ptalHandlerApollo(url, fetchOk)
           posted == outcome = "replied" /\ replyOk
       IN  /\ commands' = Append(commands,
                  [guild |-> GuildOf(channel), channel |-> channel, url |-> url,
                   description |-> description,
                   pr |-> IF outcome = "replied" THEN parseInt(url.token) ELSE NaN,
                   response |-> IF outcome = "rejected" THEN "rejected"
                                ELSE IF posted THEN "replied" ELSE "none",
                   original |-> IF posted THEN "ptal" ELSE "none",
                   pc |-> "none",
                   failed |-> IF outcome # "replied" THEN "none"
                              ELSE IF ~replyOk THEN "post"
                              ELSE IF ~insertOk THEN "insert" ELSE "none",
                   errorEdited |-> FALSE, deleteFailed |-> FALSE])
           /\ ptalTable' =
                 IF posted /\ insertOk
                 THEN ptalTable \cup
                        {[id |-> Cardinality(ptalTable) + 1,
                          channel |-> channel,
                          message |-> id,
                          owner |-> "o1",
                          repository |-> "n1",
                          pr |-> parseInt(url.token),
                          description |-> description,
                          guildId |-> Undefined]}
                 ELSE ptalTable
    /\ UNCHANGED <<fiberMap, reducerVars, bot, sweep, call, run, busVars,
                   composeVars, hookVars, crowdinVars, storeVars, overlapVars>>

\* the URLs given to the command: one of each kind the validation tells
\* apart, and PR numbers "1", "1a" and "a"
PtalUrls ==
    {url \in Urls : url.pull /\ url.github => url.token \in {<<"1">>, <<"1", "a">>, <<"a">>}}

InitPtal ==
    /\ commands = <<>>
    /\ fiberMap = <<>>
    /\ bot \in {"artemis", "apollo"}
    /\ ptalTable = {}
    /\ sweep = [pc |-> "off", listed |-> <<>>, idx |-> 0, outcome |-> "none"]
    /\ call = [pc |-> "none"]
    /\ run = [invoked |-> {}, updated |-> {}, escaped |-> FALSE]
    /\ ReducerIdle
    /\ BusIdle
    /\ ComposeIdle
    /\ StoreIdle
    /\ OverlapIdle
    /\ HookIdle
    /\ CrowdinIdle

NextPtal ==
    \/ \E channel \in Channels, url \in PtalUrls, description \in Descriptions,
          fetchOk \in BOOLEAN : PtalCommand(channel, url, description, fetchOk)
    \/ \E c \in 1..MaxCommands, ok \in BOOLEAN : FollowupPost(c, ok)
    \/ \E c \in 1..MaxCommands, ok \in BOOLEAN : FollowupInsert(c, ok)
    \/ \E c \in 1..MaxCommands, ok \in BOOLEAN : FollowupErrorEdit(c, ok)
    \/ \E c \in 1..MaxCommands : FollowupSleep(c)
    \/ \E c \in 1..MaxCommands, ok \in BOOLEAN : FollowupDelete(c, ok)
    \/ \E channel \in Channels, url \in PtalUrls, description \in Descriptions,
          fetchOk \in BOOLEAN, replyOk \in BOOLEAN, insertOk \in BOOLEAN :
             ApolloPtal(channel, url, description, fetchOk, replyOk, insertOk)

SpecPtal == InitPtal /\ [][NextPtal]_vars

(***************************************************************************)
(* Properties of the /ptal command and of its follow-up                    *)
(***************************************************************************)
Issued == 1..Len(commands)

\* the follow-up fiber of command c is running
Running(c) == commands[c].pc \in {"post", "insert", "errorEdit", "sleep", "delete"}

RecordsOf(c) == {rec \in ptalTable : rec.message = c}

\* C11: every /ptal command of artemis that passed validation (deferred
\* acknowledgment, follow-up registered) results, when its external calls
\* succeed, in exactly one posted PTAL message and exactly one record with
\* the command's message id, channel, owner, repository, PR number,
\* description and guild id -- also when another /ptal command is issued in
\* the same guild while the follow-up is running.  Finite form: once the
\* follow-up is no longer running and none of its calls failed, the message
\* and the record are there.
C11_OneMessageOneRecord ==
    \A c \in Issued :
        (bot = "artemis" /\ commands[c].response = "deferred"
           /\ ~Running(c) /\ commands[c].failed = "none")
        => /\ commands[c].original = "ptal"
           /\ Cardinality(RecordsOf(c)) = 1
           /\ \A rec \in RecordsOf(c) :
                 /\ rec.channel = commands[c].channel
                 /\ rec.pr = commands[c].pr
                 /\ rec.description = commands[c].description
                 /\ rec.guildId = commands[c].guild

\* C12: at any time at most one task is running under a key; a registration
\* under a key that has a running task is never rejected: the earlier task
\* is interrupted and the new one runs; a task that has finished is not in
\* the registry.
C12_SetAndReplace ==
    /\ \A key \in DOMAIN fiberMap :
          /\ fiberMap[key] \in Issued
          /\ Running(fiberMap[key])
          /\ commands[fiberMap[key]].guild = key
    /\ \A c \in Issued :
          /\ Running(c) =>
                (commands[c].guild \in DOMAIN fiberMap
                   /\ fiberMap[commands[c].guild] = c)
          /\ (bot = "artemis" /\ commands[c].response = "deferred")
                => commands[c].pc # "none"
          /\ commands[c].pc = "interrupted" =>
                \E d \in Issued :
                   /\ d > c
                   /\ commands[d].guild = commands[c].guild
                   /\ commands[d].response = "deferred"
    /\ \A c \in Issued, d \in Issued :
          (Running(c) /\ Running(d) /\ commands[c].guild = commands[d].guild)
             => c = d

\* the second command of a guild superseded the first one, and runs
C12_Witness ==
    /\ Len(commands) >= 2
    /\ commands[1].pc = "interrupted"
    /\ commands[1].guild = commands[2].guild
    /\ Running(2)
    /\ fiberMap[commands[2].guild] = 2

\* the URL is malformed in one of the ways the validation is to reject
Malformed(url) ==
    \/ ~url.http
    \/ ~url.parses
    \/ ~url.github
    \/ ~url.pull
    \/ url.token = <<>>
    \/ \E i \in 1..Len(url.token) : url.token[i] \notin Digits

\* C13: a /ptal command whose URL is malformed gets a rejection response,
\* registers no follow-up, posts no message and inserts no record.
C13_MalformedRejectedNeverPersisted ==
    \A c \in Issued :
        Malformed(commands[c].url) =>
            /\ commands[c].response = "rejected"
            /\ commands[c].pc = "none"
            /\ commands[c].original = "none"
            /\ RecordsOf(c) = {}

\* C14: the error message of a failed follow-up is deleted only after the
\* error edit, and once the error edit has succeeded the delete happens,
\* whatever other commands of the guild do.  Finite form: when the
\* follow-up is no longer running and the delete call did not fail, an
\* error message that was put up has been deleted.
C14_ErrorMessageDeleted ==
    \A c \in Issued :
        /\ commands[c].original = "deleted" => commands[c].errorEdited
        /\ (commands[c].errorEdited /\ ~Running(c) /\ ~commands[c].deleteFailed)
              => commands[c].original = "deleted"

DocsKey == "DocsCommand/followup"

\* queries as the option delivers them: picked from the autocomplete list
\* ('auto-' + objectID), typed ('user-' + text), or bare text
Queries == {<<"auto-", "object1">>, <<"user-", "text1">>, <<"text1">>}

startsWith(query, prefix) == Len(query) > 0 /\ query[1] = prefix

\* the follow-up fiber of /docs interaction c is running
DocsRunning(c) ==
    commands[c].pc \in {"getIndex", "getObject", "objectSearch", "search", "update"}

\* one /docs interaction: FiberMap.run(fiberMap, 'DocsCommand/followup')
\* forks the follow-up, then buildInitialResponse(hidden) is the response
DocsCommand(query, hidden) ==
    /\ Len(commands) < MaxCommands
    /\ LET id == Len(commands) + 1
           reg == FiberMapRun(fiberMap, DocsKey, id)
           new == [query |-> query, hidden |-> hidden,
                   response |-> "searching", original |-> "searching",
                   pc |-> "getIndex", searched |-> <<>>, failed |-> "none"]
       IN  /\ fiberMap' = reg.map
           /\ commands' = Append(
                 [c \in 1..Len(commands) |->
                     IF c \in reg.interrupt
                     THEN [commands[c] EXCEPT !.pc = "interrupted"]
                     ELSE commands[c]], new)
    /\ UNCHANGED <<reducerVars, sweepVars, busVars, composeVars, hookVars,
                   crowdinVars, storeVars, overlapVars>>

\* a step of the follow-up of c: on success it goes on to `next`, on failure
\* the fiber fails and leaves the map
DocsStep(c, step, ok, next) ==
    /\ c \in 1..Len(commands)
    /\ commands[c].pc = step
    /\ commands' = [commands EXCEPT ![c] =
                      IF ok THEN next ELSE [@ EXCEPT !.pc = "done", !.failed = step]]
    /\ fiberMap' = IF ok /\ next.pc # "done" THEN fiberMap
                   ELSE FiberMapRemove(fiberMap, DocsKey, c)
    /\ UNCHANGED <<reducerVars, sweepVars, busVars, composeVars, hookVars,
                   crowdinVars, storeVars, overlapVars>>

\* algolia.getIndex, then the branch on the query's prefix
DocsGetIndex(c, ok) ==
    /\ c \in 1..Len(commands)
    /\ DocsStep(c, "getIndex", ok,
          IF startsWith(commands[c].query, "auto-")
          THEN [commands[c] EXCEPT !.pc = "getObject"]
          ELSE [commands[c] EXCEPT !.pc = "search",
                   !.searched = IF startsWith(commands[c].query, "user-")
                                THEN Tail(commands[c].query) ELSE commands[c].query])

\* algolia.getObject(query.substring(5))
DocsGetObject(c, ok) ==
    /\ c \in 1..Len(commands)
    /\ DocsStep(c, "getObject", ok,
          [commands[c] EXCEPT !.pc = "objectSearch",
                              !.searched = Tail(commands[c].query)])

\* returnObjectResults: index.search by the object's hierarchy
DocsObjectSearch(c, ok) ==
    /\ c \in 1..Len(commands)
    /\ DocsStep(c, "objectSearch", ok, [commands[c] EXCEPT !.pc = "update"])

\* algolia.search(query, { lang }) and the pure maps after it
DocsSearch(c, ok) ==
    /\ c \in 1..Len(commands)
    /\ DocsStep(c, "search", ok, [commands[c] EXCEPT !.pc = "update"])

\* updateEmbeds: rest.updateOriginalWebhookMessage(id, token, { embeds })
DocsUpdate(c, ok) ==
    /\ c \in 1..Len(commands)
    /\ DocsStep(c, "update", ok,
          [commands[c] EXCEPT !.pc = "done", !.original = "results"])

InitDocs ==
    /\ PtalIdle
    /\ ReducerIdle
    /\ SweepIdle
    /\ BusIdle
    /\ ComposeIdle
    /\ StoreIdle
    /\ OverlapIdle
    /\ HookIdle
    /\ CrowdinIdle

NextDocs ==
    \/ \E query \in Queries, hidden \in BOOLEAN : DocsCommand(query, hidden)
    \/ \E c \in 1..MaxCommands, ok \in BOOLEAN : DocsGetIndex(c, ok)
    \/ \E c \in 1..MaxCommands, ok \in BOOLEAN : DocsGetObject(c, ok)
    \/ \E c \in 1..MaxCommands, ok \in BOOLEAN : DocsObjectSearch(c, ok)
    \/ \E c \in 1..MaxCommands, ok \in BOOLEAN : DocsSearch(c, ok)
    \/ \E c \in 1..MaxCommands, ok \in BOOLEAN : DocsUpdate(c, ok)

SpecDocs == InitDocs /\ [][NextDocs]_vars

\* C38: every accepted /docs command gets its deferred response updated
\* with the search result, also when another /docs command is issued while
\* its follow-up is running.  Finite form: once the follow-up of a command
\* is no longer running and none of its calls failed, the response shows
\* the result.
C38_DocsResponseUpdated ==
    \A c \in Issued :
        (~DocsRunning(c) /\ commands[c].failed = "none")
        => commands[c].original = "results"

(***************************************************************************)
(* SpecOverlap: apollo's webhook handler under overlapping deliveries.     *)
(* webhooks.onAny calls handlePullRequestChange without awaiting it, and   *)
(* every await of the handler and of editPtalMessage is a point where      *)
(* another invocation runs.  One record (pull request 1) is in the table;  *)
(* `upstream` is the pull request on GitHub, whose snapshot version grows  *)
(* with every change.                                                      *)
(***************************************************************************)
MaxChanges == 2

OverlapRecord == [id |-> 1, channel |-> 1, message |-> 1, pr |-> 1]
NotFetched == [version |-> 0 - 1, merged |-> FALSE]

NewInvocation(ready) ==
    [pc |-> IF ready THEN "select" ELSE "done", rows |-> <<>>,
     fetched |-> NotFetched, edited |-> FALSE, failed |-> "none"]

\* the pull request changes on GitHub (merged stays merged) and the webhook
\* of the change is delivered: onAny starts handlePullRequestChange, which
\* returns at once when the client is not ready
PullRequestEvent(merged, ready) ==
    /\ Len(inflight) < MaxChanges
    /\ upstream' = [version |-> upstream.version + 1,
                    merged |-> upstream.merged \/ merged]
    /\ inflight' = Append(inflight, NewInvocation(ready))
    /\ UNCHANGED <<shown, reducerVars, sweepVars, busVars, composeVars, hookVars,
                   crowdinVars, ptalVars, storeVars>>

\* db.select().from(ptalTable).where(owner, repository, pr); no row: return
HandlerSelect(h, ok) ==
    /\ h \in 1..Len(inflight)
    /\ inflight[h].pc = "select"
    /\ LET data == SelectByPr(ptalTable, OverlapRecord.pr)
       IN  inflight' = [inflight EXCEPT ![h] =
              IF ~ok THEN [@ EXCEPT !.pc = "done", !.failed = "select"]
              ELSE IF Len(data) = 0 THEN [@ EXCEPT !.pc = "done"]
              ELSE [@ EXCEPT !.pc = "fetch", !.rows = data]]
    /\ UNCHANGED <<upstream, shown, reducerVars, sweepVars, busVars, composeVars,
                   hookVars, crowdinVars, ptalVars, storeVars>>

\* editPtalMessage: pulls.get and pulls.listReviews read the pull request
\* as it is now; a throw is caught by the loop's try/catch
HandlerFetch(h, ok) ==
    /\ h \in 1..Len(inflight)
    /\ inflight[h].pc = "fetch"
    /\ inflight' = [inflight EXCEPT ![h] =
          IF ok THEN [@ EXCEPT !.pc = "edit", !.fetched = upstream]
          ELSE [@ EXCEPT !.pc = "done", !.failed = "fetch"]]
    /\ UNCHANGED <<upstream, shown, reducerVars, sweepVars, busVars, composeVars,
                   hookVars, crowdinVars, ptalVars, storeVars>>

\* editPtalMessage: channel and message fetched, payload composed from the
\* fetched snapshot, originalMessage.edit(edit); then the merged test
HandlerEdit(h, ok) ==
    /\ h \in 1..Len(inflight)
    /\ inflight[h].pc = "edit"
    /\ IF ok
       THEN /\ shown' = inflight[h].fetched.version
            /\ inflight' = [inflight EXCEPT ![h].edited = TRUE,
                  ![h].pc = IF inflight[h].fetched.merged THEN "delete" ELSE "done"]
       ELSE /\ shown' = shown
            /\ inflight' = [inflight EXCEPT ![h].pc = "done", ![h].failed = "edit"]
    /\ UNCHANGED <<upstream, reducerVars, sweepVars, busVars, composeVars,
                   hookVars, crowdinVars, ptalVars, storeVars>>

\* editPtalMessage: db.delete(ptalTable).where(eq(ptalTable.id, data.id))
HandlerDelete(h, ok) ==
    /\ h \in 1..Len(inflight)
    /\ inflight[h].pc = "delete"
    /\ IF ok
       THEN /\ ptalTable' = DbDelete(ptalTable, inflight[h].rows[1].id)
            /\ inflight' = [inflight EXCEPT ![h].pc = "done"]
       ELSE /\ ptalTable' = ptalTable
            /\ inflight' = [inflight EXCEPT ![h].pc = "done", ![h].failed = "delete"]
    /\ UNCHANGED <<upstream, shown, reducerVars, bot, sweep, call, run, busVars,
                   composeVars, hookVars, crowdinVars, ptalVars, storeVars>>

InitOverlap ==
    /\ OverlapIdle
    /\ bot = "apollo"
    /\ ptalTable = {OverlapRecord}
    /\ sweep = [pc |-> "off", listed |-> <<>>, idx |-> 0, outcome |-> "none"]
    /\ call = [pc |-> "none"]
    /\ run = [invoked |-> {}, updated |-> {}, escaped |-> FALSE]
    /\ ReducerIdle
    /\ BusIdle
    /\ ComposeIdle
    /\ HookIdle
    /\ CrowdinIdle
    /\ PtalIdle
    /\ StoreIdle

NextOverlap ==
    \/ \E merged \in BOOLEAN, ready \in BOOLEAN : PullRequestEvent(merged, ready)
    \/ \E h \in 1..MaxChanges, ok \in BOOLEAN : HandlerSelect(h, ok)
    \/ \E h \in 1..MaxChanges, ok \in BOOLEAN : HandlerFetch(h, ok)
    \/ \E h \in 1..MaxChanges, ok \in BOOLEAN : HandlerEdit(h, ok)
    \/ \E h \in 1..MaxChanges, ok \in BOOLEAN : HandlerDelete(h, ok)

SpecOverlap == InitOverlap /\ [][NextOverlap]_vars

Invocations == 1..Len(inflight)

\* every invocation started so far has completed and none of its calls failed
AllCompleted ==
    /\ inflight # <<>>
    /\ \A h \in Invocations : inflight[h].pc = "done" /\ inflight[h].failed = "none"

\* the newest snapshot version any invocation fetched
NewestFetched ==
    CHOOSE v \in {inflight[h].fetched.version : h \in Invocations} :
        \A h \in Invocations : inflight[h].fetched.version <= v

\* C32: after all in-flight reconciliations of a record have completed, the
\* chat message shows the payload computed from the most recently fetched
\* snapshot of the pull request (a reconciliation that fetched an older
\* snapshot never writes after one that fetched a newer one), and the
\* record is absent if any of them observed merged.
C32_NoStaleOverwrite ==
    (AllCompleted /\ \E h \in Invocations : inflight[h].edited)
    => /\ shown = NewestFetched
       /\ (\E h \in Invocations : inflight[h].fetched.merged) => ptalTable = {}

(***************************************************************************)
(* The event bus: makeEventBus                                             *)
(***************************************************************************)
Kinds == {"X", "Y"}

\* what a subscribed handler does when it is invoked for an event:
\*   "ok"     handler(event) returns an effect that succeeds
\*   "fail"   handler(event) returns an effect that fails (typed failure)
\*   "die"    handler(event) returns an effect that dies (defect)
\*   "throw"  the call handler(event) itself throws
HandlerBehaviours == {"ok", "fail", "die", "throw"}

NoEvent == [id |-> 0, type |-> "X"]
Subscribed == Len(listeners["X"]) + Len(listeners["Y"])

\* a queue that hands out the newest event first
PublishPrepend(kind) ==
    /\ published < MaxEvents
    /\ published' = published + 1
    /\ queue' = <<[id |-> published + 1, type |-> kind]>> \o queue
    /\ UNCHANGED <<listeners, processor, scopeOpen, completed, reducerVars, sweepVars, extVars>>

\* publish: Queue.offer(queue, event)
Publish(kind) ==
    /\ published < MaxEvents
    /\ published' = published + 1
    /\ queue' = Append(queue, [id |-> published + 1, type |-> kind])
    /\ UNCHANGED <<listeners, processor, scopeOpen, completed, reducerVars, sweepVars, extVars>>

SubscribeReplace(kind, handler) ==
    /\ Subscribed < MaxHandlers
    /\ listeners' = [listeners EXCEPT ![kind] = <<handler>>]
    /\ UNCHANGED <<queue, processor, scopeOpen, published, completed,
                   reducerVars, sweepVars, extVars>>

\* subscribe: handlers = listeners.get(eventType) || []; push; set
Subscribe(kind, handler) ==
    /\ Subscribed < MaxHandlers
    /\ listeners' = [listeners EXCEPT ![kind] = Append(@, handler)]
    /\ UNCHANGED <<queue, processor, scopeOpen, published, completed,
                   reducerVars, sweepVars, extVars>>

\* handlers.map((handler) => Effect.catchAll(handler(event), ...)) calls every
\* handler inside the generator: a call that throws is a defect of the loop
\* body, before Effect.all has started any handler effect.
SyncThrow(handlers) == \E i \in 1..Len(handlers) : handlers[i] = "throw"

\* Effect.catchAll recovers typed failures only
CatchAllCatches(behaviour) == behaviour = "fail"

ProcessorTakeEager ==
    /\ processor.pc \in {"waiting", "running"}
    /\ queue # <<>>
    /\ queue' = Tail(queue)
    /\ LET event == Head(queue)
           handlers == listeners[event.type]
       IN  processor' =
             IF SyncThrow(handlers)
             THEN [pc |-> "dead", event |-> event, handlers |-> handlers, pending |-> {}]
             ELSE IF handlers = <<>>
             THEN [pc |-> "waiting", event |-> event, handlers |-> handlers,
                   pending |-> {}]
             ELSE [pc |-> "running", event |-> event, handlers |-> handlers,
                   pending |-> {i \in 1..Len(handlers) : handlers[i] # "throw"}]
    /\ UNCHANGED <<listeners, scopeOpen, published, completed, reducerVars, sweepVars, extVars>>

\* one iteration of the loop body up to the start of the handler effects
ProcessorTake ==
    /\ processor.pc = "waiting"
    /\ queue # <<>>
    /\ queue' = Tail(queue)
    /\ LET event == Head(queue)
           handlers == listeners[event.type]
       IN  processor' =
             IF SyncThrow(handlers)
             THEN [pc |-> "dead", event |-> event, handlers |-> handlers, pending |-> {}]
             ELSE IF handlers = <<>>
             THEN [pc |-> "waiting", event |-> event, handlers |-> handlers,
                   pending |-> {}]
             ELSE [pc |-> "running", event |-> event, handlers |-> handlers,
                   pending |-> {i \in 1..Len(handlers) : handlers[i] # "throw"}]
    /\ UNCHANGED <<listeners, scopeOpen, published, completed, reducerVars, sweepVars, extVars>>

\* one of the concurrently running handler effects ends
HandlerEnds(i) ==
    /\ processor.pc = "running"
    /\ i \in processor.pending
    /\ LET behaviour == processor.handlers[i]
           rest == processor.pending \ {i}
       IN  /\ completed' = IF behaviour = "ok"
                           THEN completed \cup {<<processor.event.id, i>>}
                           ELSE completed
           /\ processor' =
                IF behaviour = "ok" \/ CatchAllCatches(behaviour)
                THEN [processor EXCEPT !.pending = rest,
                                       !.pc = IF rest = {} THEN "waiting" ELSE "running"]
                ELSE \* the defect fails Effect.all, which interrupts the
                     \* siblings still running, and ends Effect.forever
                     [processor EXCEPT !.pending = {}, !.pc = "dead"]
    /\ UNCHANGED <<queue, listeners, scopeOpen, published, reducerVars, sweepVars, extVars>>

\* a scope that closes without interrupting the processor fiber
CloseScopeNoInterrupt ==
    /\ scopeOpen
    /\ scopeOpen' = FALSE
    /\ UNCHANGED <<queue, listeners, processor, published, completed,
                   reducerVars, sweepVars, extVars>>

\* the scope's finalizer: Fiber.interrupt(processorFiber), which returns
\* when the fiber has terminated
CloseScope ==
    /\ scopeOpen
    /\ scopeOpen' = FALSE
    /\ processor' = IF processor.pc \in {"waiting", "running"}
                    THEN [processor EXCEPT !.pc = "stopped", !.pending = {}]
                    ELSE processor
    /\ UNCHANGED <<queue, listeners, published, completed, reducerVars, sweepVars, extVars>>

InitBus ==
    /\ queue = <<>>
    /\ listeners = [k \in Kinds |-> <<>>]
    /\ processor = [pc |-> "waiting", event |-> NoEvent, handlers |-> <<>>,
                    pending |-> {}]
    /\ scopeOpen = TRUE
    /\ published = 0
    /\ completed = {}
    /\ ReducerIdle
    /\ SweepIdle
    /\ ExtIdle

NextBus ==
    \/ \E kind \in Kinds : Publish(kind)
    \/ \E kind \in Kinds, handler \in HandlerBehaviours : Subscribe(kind, handler)
    \/ ProcessorTake
    \/ \E i \in 1..MaxHandlers : HandlerEnds(i)
    \/ CloseScope

SpecBus == InitBus /\ [][NextBus]_vars

(***************************************************************************)
(* Properties of the event bus                                             *)
(***************************************************************************)
\* the consumer has finished with the event it took last
EventOver == processor.event.id > 0 /\ processor.pc \in {"waiting", "dead"}

\* C4: with two handlers subscribed to one kind, one of which throws when it
\* is invoked, the other handler is still run for the event and completes:
\* once the consumer is through with the event, the effect of every
\* succeeding sibling of the throwing handler is observable.
C4_SiblingOfThrowingHandlerCompletes ==
    (scopeOpen /\ EventOver /\ Len(processor.handlers) = 2
       /\ \E i \in 1..2 : processor.handlers[i] = "throw")
    => \A j \in 1..2 :
          processor.handlers[j] = "ok" => <<processor.event.id, j>> \in completed

\* C5: no handler failure (typed failure, defect or synchronous throw) stops
\* the consumer loop: while the scope is open the consumer is taking events
\* or running handlers, so every event published later is still dispatched.
C5_LoopNeverStopsWhileScopeOpen ==
    scopeOpen => processor.pc \in {"waiting", "running"}

\* the consumer is in its loop: waiting on Queue.take or running handlers
Consuming(p) == p.pc \in {"waiting", "running"}

\* C17: events reach the handler-lookup step in the order in which publish
\* enqueued them: publish numbers the events 1, 2, ...; the event looked up
\* last is number k, and the queue holds exactly the events k+1, k+2, ... up
\* to the last one published, oldest first, so the next lookup is k+1.  The
\* handlers of one event run concurrently: whichever of them is still running
\* may be the next to end.
C17_FifoOrder ==
    /\ processor.event.id + Len(queue) = published
    /\ \A i \in 1..Len(queue) : queue[i].id = processor.event.id + i
    /\ processor.pc = "running" =>
          \A i \in processor.pending : ENABLED HandlerEnds(i)

\* the second event published is being handled after the first, and its
\* second handler has ended while its first one is still running
C17_Witness ==
    /\ processor.event.id = 2
    /\ processor.pc = "running"
    /\ processor.pending = {1}
    /\ <<2, 2>> \in completed
    /\ <<1, 1>> \in completed

\* C18: the consumer's only transition out of Consuming is to Stopped, taken
\* when the owning scope closes; it never stops for another reason (not
\* because of a handler), never restarts, and each published event is
\* dequeued at most once (a dequeue removes the head of the queue, and the
\* event numbers looked up only increase).
C18_ConsumerLifecycle ==
    [][/\ Consuming(processor) /\ ~Consuming(processor')
            => (processor'.pc = "stopped" /\ scopeOpen /\ ~scopeOpen')
       /\ ~Consuming(processor) => ~Consuming(processor')
       /\ processor'.event # processor.event
            => (/\ queue # <<>>
                /\ processor'.event = Head(queue)
                /\ queue' = Tail(queue)
                /\ processor'.event.id > processor.event.id)]_vars

\* C19: closing the scope interrupts the consumer and returns only when it
\* has terminated: in every state with the scope closed the consumer is not
\* consuming and no handler is running; from then on no event is taken from
\* the queue and no handler completes, while publish still enqueues.
C19_ShutdownStopsDelivery ==
    /\ [](~scopeOpen => (~Consuming(processor) /\ processor.pending = {}))
    /\ [][~scopeOpen =>
            /\ ~scopeOpen'
            /\ processor' = processor
            /\ completed' = completed
            /\ \/ queue' = queue
               \/ /\ Len(queue') = Len(queue) + 1
                  /\ SubSeq(queue', 1, Len(queue)) = queue]_vars

\* the scope was closed while the consumer was handling the first event; the
\* second event is still queued
C19_Witness ==
    /\ ~scopeOpen
    /\ processor.pc = "stopped"
    /\ processor.event.id = 1
    /\ processor.handlers # <<>>
    /\ Len(queue) = 1

\* C27: a step that changes the handler registry appends one handler to the
\* list of one kind and leaves every other kind's list as it was; no step
\* removes or reorders handlers, so each kind's list only ever extends.
C27_RegistryMonotone ==
    [][/\ \A k \in Kinds : IsPrefix(listeners[k], listeners'[k])
       /\ listeners' # listeners =>
             \E k \in Kinds : \E h \in HandlerBehaviours :
                 listeners' = [listeners EXCEPT ![k] = Append(@, h)]]_vars

\* two handlers registered for one kind, still there after an event was
\* handled and the scope was closed
C27_Witness ==
    /\ Len(listeners["X"]) = 2
    /\ listeners["Y"] = <<>>
    /\ completed # {}
    /\ ~scopeOpen

\* C35: the consumer takes an event off the queue only while no handler
\* effect of the previous event is still running; handler effects that run
\* at the same time belong to the one event taken last, and while one of
\* them has not completed no later event leaves the queue.
C35_HeadOfLine ==
    /\ [](processor.pending # {} =>
            /\ processor.pc = "running"
            /\ processor.pending \subseteq 1..Len(processor.handlers)
            /\ processor.handlers # <<>>)
    /\ [][Len(queue') < Len(queue) =>
            /\ processor.pc = "waiting" /\ processor.pending = {}
            /\ processor'.event = Head(queue)]_vars
    /\ [][(processor.pending # {} /\ processor'.pending = processor.pending)
            => (Len(queue') >= Len(queue) /\ processor'.event = processor.event)]_vars

\* the second event waits in the queue behind one handler of the first that
\* has not completed, its sibling having completed
C35_Witness ==
    /\ scopeOpen
    /\ processor.pc = "running"
    /\ processor.event.id = 1
    /\ Cardinality(processor.pending) = 1
    /\ Len(processor.handlers) = 2
    /\ Len(queue) = 1

\* C36: the step that takes an event off the queue starts the effect of
\* every handler registered for the event's kind at that moment, each once;
\* with none registered the event is dropped; a handler subscribed later
\* does not join the event being handled.
C36_LookupAtDequeue ==
    /\ [][Len(queue') < Len(queue) =>
            /\ processor'.event = Head(queue)
            /\ processor'.handlers = listeners[Head(queue).type]
            /\ processor'.pending = 1..Len(listeners[Head(queue).type])
            /\ listeners[Head(queue).type] = <<>> => processor'.pc = "waiting"]_vars
    /\ [][listeners' # listeners =>
            (processor' = processor /\ queue' = queue /\ completed' = completed)]_vars

====
